---- MODULE Spec2Model ----
(***************************************************************************)
(* Model of strapi-provider-upload-minio: the MinIO storage adapter        *)
(* (upload / delete / getSignedUrl), the path builder, the URL builder and *)
(* the configuration validator.                                            *)
(* JavaScript strings are TLA+ strings; string methods are computed on     *)
(* them with SubSeq and Len.                                               *)
(***************************************************************************)
EXTENDS Integers, Sequences, FiniteSets, TLC

(***************************************************************************)
(* JavaScript values                                                       *)
(***************************************************************************)

\* the value `undefined` of an optional string field
Undefined == "<undefined>"

\* JavaScript truthiness of an optional string: !s is true for undefined and ""
Truthy(s) == s # Undefined /\ s # ""

\* a truthy value that is not a string, where a string is expected
NonString == "<non-string>"

\* an absent optional number is <<>>; the number w + h/2 is <<w, h>>, h \in {0,1}
NoNumber == <<>>

Num(n) == <<n, 0>>

NumIsInteger(x) == x[2] = 0

NumIsPositive(x) == x[1] > 0 \/ (x[1] = 0 /\ x[2] = 1)

\* truthiness of an optional number: undefined and 0 are falsy
NumTruthy(x) == x # NoNumber /\ x # Num(0)

(***************************************************************************)
(* String methods                                                          *)
(***************************************************************************)

StartsWith(s, p) == Len(p) <= Len(s) /\ SubSeq(s, 1, Len(p)) = p

EndsWith(s, p) == Len(p) <= Len(s) /\ SubSeq(s, Len(s) - Len(p) + 1, Len(s)) = p

\* the least element of a non-empty set of integers
Least(hits) == CHOOSE i \in hits : \A j \in hits : i <= j

\* the greatest element of a non-empty set of integers
Greatest(hits) == CHOOSE i \in hits : \A j \in hits : i >= j

\* the 1-based positions at which p occurs in s
Occurrences(s, p) == {i \in 1..(Len(s) - Len(p) + 1) : SubSeq(s, i, i + Len(p) - 1) = p}

\* String.prototype.indexOf: 0-based index of the first occurrence, -1 if none
IndexOf(s, p) == IF Occurrences(s, p) = {} THEN -1 ELSE Least(Occurrences(s, p)) - 1

Includes(s, p) == IndexOf(s, p) # -1

\* s.substring(from) and s.substring(from, to), 0-based
Substring(s, from) == SubSeq(s, from + 1, Len(s))

SubstringTo(s, from, to) == SubSeq(s, from + 1, to)

\* s without the Len(p) characters at the 0-based position i, s itself if i = -1
RemoveAt(s, p, i) ==
  IF i = -1 THEN s ELSE SubstringTo(s, 0, i) \o Substring(s, i + Len(p))

\* s.replace(p, "") with a string pattern: removes the first occurrence only
RemoveFirst(s, p) == RemoveAt(s, p, IndexOf(s, p))

WhiteSpace == {" ", "\t", "\n", "\r", "\f"}

\* characters matched by /[\x00-\x1F\x7F]/ among the characters of the model
ControlChars == {"\t", "\n", "\r", "\f"}

Seps == {"/", "\\"}

\* the 1-based positions of the characters of s that are in cs
PositionsIn(s, cs) == {i \in 1..Len(s) : SubSeq(s, i, i) \in cs}

\* the 1-based positions of the characters of s that are not in cs
PositionsNotIn(s, cs) == {i \in 1..Len(s) : SubSeq(s, i, i) \notin cs}

\* 1-based position of the first character of s that is in cs, Len(s) + 1 if none
FirstIn(s, cs) ==
  IF PositionsIn(s, cs) = {} THEN Len(s) + 1 ELSE Least(PositionsIn(s, cs))

\* 1-based position of the first character of s that is not in cs, Len(s) + 1 if none
FirstNotIn(s, cs) ==
  IF PositionsNotIn(s, cs) = {} THEN Len(s) + 1 ELSE Least(PositionsNotIn(s, cs))

\* 1-based position of the last character of s that is not in cs, 0 if none
LastNotIn(s, cs) ==
  IF PositionsNotIn(s, cs) = {} THEN 0 ELSE Greatest(PositionsNotIn(s, cs))

\* s.trim()
Trim(s) == SubSeq(s, FirstNotIn(s, WhiteSpace), LastNotIn(s, WhiteSpace))

\* s from its first character that is not in cs
SkipRun(s, cs) == SubSeq(s, FirstNotIn(s, cs), Len(s))

RECURSIVE StripControlFrom(_, _)
\* s.replace(/[\x00-\x1F\x7F]/g, "")
StripControl(s) == StripControlFrom(s, FirstIn(s, ControlChars))

\* StripControl(s), i being the position of the first control character of s
StripControlFrom(s, i) ==
  IF i > Len(s) THEN s
  ELSE SubSeq(s, 1, i - 1) \o StripControl(SubSeq(s, i + 1, Len(s)))

RECURSIVE CollapseRunsFrom(_, _, _)
\* every run of characters of cs in s becomes one "/"
CollapseRuns(s, cs) == CollapseRunsFrom(s, cs, FirstIn(s, cs))

\* CollapseRuns(s, cs), i being the position of the first character of cs in s
CollapseRunsFrom(s, cs, i) ==
  IF i > Len(s) THEN s
  ELSE SubSeq(s, 1, i - 1) \o "/" \o CollapseRuns(SkipRun(SubSeq(s, i, Len(s)), cs), cs)

\* s.replace(/[\\\/]+/g, "/"): every run of slashes and backslashes becomes "/"
CollapseSeparators(s) == CollapseRuns(s, Seps)

\* s.replace(/\/+/g, "/"): every run of slashes becomes one slash
CollapseSlashes(s) == CollapseRuns(s, {"/"})

\* s without its last character when that is a slash
StripTrailingSlash(s) == IF EndsWith(s, "/") THEN SubSeq(s, 1, Len(s) - 1) ELSE s

\* s.replace(/^\/|\/$/g, ""): one leading and one trailing slash are removed
StripEdgeSlashes(s) == StripTrailingSlash(IF StartsWith(s, "/") THEN Tail(s) ELSE s)

RECURSIVE SplitOnFrom(_, _, _)
\* s.split("/"): the pieces between single characters of seps
SplitOn(s, seps) == SplitOnFrom(s, seps, FirstIn(s, seps))

\* SplitOn(s, seps), i being the position of the first separator of s
SplitOnFrom(s, seps, i) ==
  IF i > Len(s) THEN <<s>>
  ELSE <<SubSeq(s, 1, i - 1)>> \o SplitOn(SubSeq(s, i + 1, Len(s)), seps)

RECURSIVE SplitRunsFrom(_, _)
\* s.split(/[\/\\]+/): the pieces between runs of separators
SplitRuns(s) == SplitRunsFrom(s, FirstIn(s, Seps))

\* SplitRuns(s), i being the position of the first separator of s
SplitRunsFrom(s, i) ==
  IF i > Len(s) THEN <<s>>
  ELSE <<SubSeq(s, 1, i - 1)>> \o SplitRuns(SkipRun(SubSeq(s, i, Len(s)), Seps))

\* segs.join("/")
RECURSIVE Join(_)
Join(segs) ==
  IF segs = <<>> THEN ""
  ELSE IF Len(segs) = 1 THEN segs[1]
       ELSE segs[1] \o "/" \o Join(Tail(segs))

(***************************************************************************)
(* Platform functions: decodeURIComponent and the WHATWG URL parser        *)
(***************************************************************************)

\* the percent escapes the model decodes
PercentEscapes == {"%3F", "%23", "%2F", "%25", "%20"}

EscapeChar(e) ==
  CASE e = "%3F" -> "?"
    [] e = "%23" -> "#"
    [] e = "%2F" -> "/"
    [] e = "%25" -> "%"
    [] OTHER     -> " "

\* decodeURIComponent(s): ok = FALSE stands for the URIError thrown on a '%'
\* that does not start an escape sequence, or that starts one which is not
\* the UTF-8 encoding of a character ("%E9")
RECURSIVE decodeFrom(_, _)
decodeURIComponent(s) == decodeFrom(s, FirstIn(s, {"%"}))

\* the decoded rest r appended to the decoded escape at position i of s
decodeAppend(s, i, r) ==
  [ok |-> r.ok, val |-> SubSeq(s, 1, i - 1) \o EscapeChar(SubSeq(s, i, i + 2)) \o r.val]

\* decodeURIComponent(s), i being the position of the first '%' of s
decodeFrom(s, i) ==
  IF i > Len(s) THEN [ok |-> TRUE, val |-> s]
  ELSE IF i + 2 > Len(s) THEN [ok |-> FALSE, val |-> ""]
  ELSE IF SubSeq(s, i, i + 2) \notin PercentEscapes THEN [ok |-> FALSE, val |-> ""]
  ELSE decodeAppend(s, i, decodeURIComponent(SubSeq(s, i + 3, Len(s))))

Digits == {"0", "1", "2", "3", "4", "5", "6", "7", "8", "9"}

IsDigits(s) == \A i \in 1..Len(s) : SubSeq(s, i, i) \in Digits

\* 0-based position of the first character of s that is in cs, s.length if none
FirstOf(s, cs) == FirstIn(s, cs) - 1

\* acc without its last element, if it has one
Pop(acc) == IF acc = <<>> THEN acc ELSE SubSeq(acc, 1, Len(acc) - 1)

\* acc with an empty last segment when the dot segment was the last one
AfterDot(acc, last) == IF last THEN Append(acc, "") ELSE acc

\* removal of "." and ".." segments from the segments of a URL path
RECURSIVE RemoveDotSegments(_, _)
RemoveDotSegments(segs, acc) ==
  IF segs = <<>> THEN acc
  ELSE IF Head(segs) = ".."
       THEN RemoveDotSegments(Tail(segs), AfterDot(Pop(acc), Len(segs) = 1))
  ELSE IF Head(segs) = "."
       THEN RemoveDotSegments(Tail(segs), AfterDot(acc, Len(segs) = 1))
  ELSE RemoveDotSegments(Tail(segs), Append(acc, Head(segs)))

\* characters that make the host of an http(s) URL invalid
ForbiddenHostChars == {" ", "\t", "\n", "\r", "\f", "%", "<", ">", "\\", "^", "|", "[", "]", "@"}

\* the result of new URL(s) when it throws its TypeError
BadUrl == [ok |-> FALSE, hostname |-> "", pathname |-> ""]

\* characters the URL parser percent-encodes in a path (the double quote
\* and the grave accent, encoded as well, are left out)
PathEncodeSet == {" ", "<", ">", "{", "}"}

\* the percent-encoding of a character of PathEncodeSet
PercentEncode(c) ==
  CASE c = " "  -> "%20"
    [] c = "<"  -> "%3C"
    [] c = ">"  -> "%3E"
    [] c = "{"  -> "%7B"
    [] c = "}"  -> "%7D"

RECURSIVE EncodePathFrom(_, _)
\* s with its characters of PathEncodeSet percent-encoded
EncodePath(s) == EncodePathFrom(s, FirstIn(s, PathEncodeSet))

\* EncodePath(s), i being the position of the first character to encode
EncodePathFrom(s, i) ==
  IF i > Len(s) THEN s
  ELSE SubSeq(s, 1, i - 1) \o PercentEncode(SubSeq(s, i, i))
       \o EncodePath(SubSeq(s, i + 1, Len(s)))

\* the pathname of a URL whose path, as written, is rawp
PathnameOf(rawp) ==
  "/" \o Join(RemoveDotSegments(IF rawp = "" THEN <<"">>
                                ELSE SplitOn(EncodePath(Tail(rawp)), {"/"}),
                                <<>>))

\* the URL with the given host, port and written path
ParseHostPortPath(host, port, rawp) ==
  IF host = "" \/ ~IsDigits(port) THEN BadUrl
  ELSE IF PositionsIn(host, ForbiddenHostChars) # {} THEN BadUrl
  ELSE [ok |-> TRUE, hostname |-> host, pathname |-> PathnameOf(rawp)]

\* the URL with authority auth (host[:port]), colon being the 0-based position
\* of its ':' or -1, and with `after` following the authority
ParseAuthority(auth, colon, after) ==
  ParseHostPortPath(IF colon = -1 THEN auth ELSE SubstringTo(auth, 0, colon),
                    IF colon = -1 THEN "" ELSE Substring(auth, colon + 1),
                    SubstringTo(after, 0, FirstOf(after, {"?", "#"})))

\* the URL whose text after "scheme://" is rest, its authority ending at aEnd
ParseAfterScheme(rest, aEnd) ==
  ParseAuthority(SubstringTo(rest, 0, aEnd),
                 IndexOf(SubstringTo(rest, 0, aEnd), ":"),
                 Substring(rest, aEnd))

\* new URL(s) for an absolute http or https URL: ok = FALSE stands for the
\* TypeError thrown on a string that does not parse (no scheme, empty or
\* invalid host, invalid port); hostname and pathname are the properties of
\* the parsed URL (the path has its dot segments removed)
ParseURL(s) ==
  IF StartsWith(s, "http://")
  THEN ParseAfterScheme(Substring(s, 7), FirstOf(Substring(s, 7), {"/", "?", "#"}))
  ELSE IF StartsWith(s, "https://")
  THEN ParseAfterScheme(Substring(s, 8), FirstOf(Substring(s, 8), {"/", "?", "#"}))
  ELSE BadUrl

(***************************************************************************)
(* utils/url-builder.ts                                                    *)
(***************************************************************************)

\* decimal text of a port number
RECURSIVE NumToString(_)
NumToString(n) ==
  LET d == SubSeq("0123456789", (n % 10) + 1, (n % 10) + 1)
  IN  IF n < 10 THEN d ELSE NumToString(n \div 10) \o d

\* shouldIncludePortInUrl omitting both conventional ports under either scheme
shouldIncludePortInUrlEither(port, useSSL) == port \notin {80, 443}

shouldIncludePortInUrl(port, useSSL) ==
  IF useSSL /\ port = 443 THEN FALSE
  ELSE IF ~useSSL /\ port = 80 THEN FALSE
  ELSE TRUE

buildHostUrl(config) ==
  LET protocol   == IF config.useSSL THEN "https://" ELSE "http://"
      portSuffix == IF shouldIncludePortInUrl(config.port, config.useSSL)
                    THEN ":" \o NumToString(config.port) ELSE ""
  IN  protocol \o config.endPoint \o portSuffix \o "/"

createFileUrl(uploadPath, hostUrl, bucket) == hostUrl \o bucket \o "/" \o uploadPath

\* url.pathname.startsWith(`/${bucket}/`) || url.pathname === `/${bucket}`
pathnameUnderBucket(url, bucket) ==
  url.ok /\ (StartsWith(url.pathname, "/" \o bucket \o "/") \/ url.pathname = "/" \o bucket)

pathnameContainsBucket(fileUrl, bucket) ==
  IF ~Truthy(fileUrl) THEN FALSE
  ELSE pathnameUnderBucket(ParseURL(fileUrl), bucket)

\* isParsedFromSameBucket without the checks of the hostname
isParsedFromSameBucketAnyHost(url, endPoint, bucket) ==
  IF ~url.ok THEN FALSE ELSE pathnameUnderBucket(url, bucket)

\* the body of the try block of isFileFromSameBucket, url being new URL(fileUrl)
isParsedFromSameBucket(url, endPoint, bucket) ==
  IF ~url.ok THEN FALSE
  ELSE IF ~pathnameUnderBucket(url, bucket) THEN FALSE
  ELSE IF url.hostname = endPoint \/ Includes(url.hostname, endPoint)
          \/ Includes(endPoint, url.hostname)
       THEN TRUE
  ELSE Includes(url.hostname, ".") \/ url.hostname = "localhost"

isFileFromSameBucket(fileUrl, endPoint, bucket) ==
  IF ~Truthy(fileUrl) THEN FALSE
  ELSE isParsedFromSameBucket(ParseURL(fileUrl), endPoint, bucket)

(***************************************************************************)
(* utils/path-builder.ts                                                   *)
(* A function that can throw returns [ok, val, err]: ok = FALSE stands for *)
(* the exception of class err.                                             *)
(***************************************************************************)

Ok(v) == [ok |-> TRUE, val |-> v, err |-> ""]

Throw(e) == [ok |-> FALSE, val |-> "", err |-> e]

\* sanitizePathSegment after the trim and the removal of control characters
checkSanitized(sanitized) ==
  IF Includes(sanitized, "..") \/ Includes(sanitized, "~")
     \/ StartsWith(sanitized, "/") \/ StartsWith(sanitized, "\\")
  THEN Throw("PathTraversalError")
  ELSE Ok(CollapseSeparators(sanitized))

sanitizePathSegment(segment) ==
  IF ~Truthy(segment) THEN Ok("")
  ELSE checkSanitized(StripControl(Trim(segment)))

\* the sanitized segments joined, those that came out empty left out
joinSanitized(segs) ==
  IF \E i \in 1..Len(segs) : ~segs[i].ok THEN Throw("PathTraversalError")
  ELSE Ok(Join(SelectSeq([i \in 1..Len(segs) |-> segs[i].val], LAMBDA x : Len(x) > 0)))

\* path.split(/[\/\\]+/).map(sanitizePathSegment)
sanitizeAll(raw) == [i \in 1..Len(raw) |-> sanitizePathSegment(raw[i])]

normalizePath(path) ==
  IF ~Truthy(path) THEN Ok("")
  ELSE joinSanitized(sanitizeAll(SplitRuns(path)))

\* buildPathPart without the check for an absolute path
buildPathPartNormalizeOnly(part) == normalizePath(part)

\* the folder and file.path arguments go through the same steps
buildPathPart(part) ==
  IF ~Truthy(part) THEN Ok("")
  ELSE IF StartsWith(Trim(part), "/") \/ StartsWith(Trim(part), "\\")
       THEN Throw("PathTraversalError")
  ELSE normalizePath(part)

\* the non-empty parts and the file name joined with "/"
joinParts(f, p, name) ==
  Join((IF f # "" THEN <<f>> ELSE <<>>) \o (IF p # "" THEN <<p>> ELSE <<>>) \o <<name>>)

\* buildUploadPath from its sanitized parts: folder f, file.path p, hash h and
\* extension e, each the result or the exception of its sanitization
assembleUploadPath(file, f, p, h, e) ==
  IF ~f.ok THEN f
  ELSE IF ~p.ok THEN p
  ELSE IF ~Truthy(file.hash) \/ file.hash = NonString THEN Throw("PathTraversalError")
  ELSE IF ~Truthy(file.ext) \/ file.ext = NonString THEN Throw("PathTraversalError")
  ELSE IF ~h.ok THEN h
  ELSE IF ~e.ok THEN e
  ELSE IF e.val = "" THEN Throw("PathTraversalError")
  ELSE Ok(joinParts(f.val, p.val, h.val \o "." \o e.val))

buildUploadPath(file, folder) ==
  assembleUploadPath(file, buildPathPart(folder), buildPathPart(file.path),
                     sanitizePathSegment(file.hash),
                     sanitizePathSegment(IF StartsWith(file.ext, ".") THEN Tail(file.ext)
                                         ELSE file.ext))

\* the last two attempts of the try block: the bucket as first path segment,
\* then the removal of the bucket prefix
extractFromSegments(pathname, segments, filePath, decodedUrl, bucket) ==
  IF StartsWith(pathname, "/") /\ segments[1] = bucket /\ Len(segments) > 1
  THEN Ok(Join(Tail(segments)))
  ELSE IF filePath # decodedUrl THEN Ok(filePath)
  ELSE Throw("Error")

\* the body of the try block of extractFilePathFromUrl, urlObj being
\* new URL(decodedUrl) and bucketPrefix `${hostUrl}${bucket}/`
extractFromParsed(urlObj, decodedUrl, bucketPrefix, bucket) ==
  IF ~urlObj.ok THEN Throw("TypeError")
  ELSE IF StartsWith(urlObj.pathname, "/" \o bucket \o "/")
       THEN Ok(Substring(urlObj.pathname, Len(bucket) + 2))
  ELSE IF urlObj.pathname = "/" \o bucket THEN Ok("")
  ELSE IF StartsWith(decodedUrl, bucketPrefix)
       THEN Ok(Substring(decodedUrl, Len(bucketPrefix)))
  ELSE extractFromSegments(urlObj.pathname,
                           SplitOn(Substring(urlObj.pathname, 1), {"/"}),
                           RemoveFirst(decodedUrl, bucketPrefix), decodedUrl, bucket)

\* the catch block of extractFilePathFromUrl, bucketIndex being
\* decodedUrl.indexOf(bucketPattern)
extractFallback(decodedUrl, bucketPrefix, bucketPattern, bucketIndex, error) ==
  IF StartsWith(decodedUrl, bucketPrefix)
  THEN Ok(Substring(decodedUrl, Len(bucketPrefix)))
  ELSE IF bucketIndex # -1
       THEN Ok(Substring(decodedUrl, bucketIndex + Len(bucketPattern)))
  ELSE Throw(error)

\* the result of the try block, or that of the catch block when it threw
extractTryCatch(tried, decodedUrl, hostUrl, bucket) ==
  IF tried.ok THEN tried
  ELSE extractFallback(decodedUrl, hostUrl \o bucket \o "/", "/" \o bucket \o "/",
                       IndexOf(decodedUrl, "/" \o bucket \o "/"), tried.err)

\* s up to the first occurrence of the character c, all of s if there is none
UpTo(s, c) == SubSeq(s, 1, FirstIn(s, {c}) - 1)

\* extractFilePathFromUrl on the decoded URL without query string and fragment
extractFromDecoded(decodedUrl, hostUrl, bucket) ==
  extractTryCatch(extractFromParsed(ParseURL(decodedUrl), decodedUrl,
                                    hostUrl \o bucket \o "/", bucket),
                  decodedUrl, hostUrl, bucket)

\* extractFilePathFromUrl after decodeURIComponent(url)
extractAfterDecode(dec, hostUrl, bucket) ==
  IF ~dec.ok THEN Throw("URIError")
  ELSE extractFromDecoded(UpTo(UpTo(dec.val, "?"), "#"), hostUrl, bucket)

extractFilePathFromUrl(url, hostUrl, bucket) ==
  IF ~Truthy(url) THEN Throw("Error")
  ELSE extractAfterDecode(decodeURIComponent(url), hostUrl, bucket)

(***************************************************************************)
(* utils/config-validator.ts                                               *)
(* A raw option is a JavaScript value of any type: [t, s, n, b] is the     *)
(* value of type t (typeof, "null" for null) that is the string s, the     *)
(* finite number n or the boolean b; NaN, Infinity and -Infinity are the   *)
(* numbers named by s.                                                     *)
(***************************************************************************)

JsValue(t, s, n, b) == [t |-> t, s |-> s, n |-> n, b |-> b]

JsUndefined == JsValue("undefined", "", NoNumber, FALSE)

JsNull == JsValue("null", "", NoNumber, FALSE)

JsString(s) == JsValue("string", s, NoNumber, FALSE)

JsNumber(x) == JsValue("number", "", x, FALSE)

JsNaN == JsValue("number", "NaN", NoNumber, FALSE)

JsInfinity == JsValue("number", "Infinity", NoNumber, FALSE)

JsNegInfinity == JsValue("number", "-Infinity", NoNumber, FALSE)

JsBoolean(b) == JsValue("boolean", "", NoNumber, b)

\* JavaScript truthiness: !v is true for undefined, null, "", 0, NaN and false
JsTruthy(v) ==
  CASE v.t = "string"  -> v.s # ""
    [] v.t = "number"  -> v.s \in {"Infinity", "-Infinity"} \/ (v.s = "" /\ v.n # Num(0))
    [] v.t = "boolean" -> v.b
    [] OTHER           -> FALSE

\* the set of the characters of s
Chars(s) == {SubSeq(s, i, i) : i \in 1..Len(s)}

UpperCase == "ABCDEFGHIJKLMNOPQRSTUVWXYZ"

LowerCase == "abcdefghijklmnopqrstuvwxyz"

HexDigits == Digits \cup Chars("abcdefABCDEF")

\* [a-z0-9]
LowerAlnum == Chars(LowerCase) \cup Digits

\* [a-zA-Z0-9]
Alnum == LowerAlnum \cup Chars(UpperCase)

\* every character of s is in cs
AllIn(s, cs) == PositionsNotIn(s, cs) = {}

\* the k-th lower-case letter
LowerAt(k) == SubSeq(LowerCase, k, k)

RECURSIVE toLowerCaseFrom(_, _)
\* s.toLowerCase()
toLowerCase(s) == toLowerCaseFrom(s, FirstIn(s, Chars(UpperCase)))

\* toLowerCase(s), i being the position of the first upper-case letter of s
toLowerCaseFrom(s, i) ==
  IF i > Len(s) THEN s
  ELSE SubSeq(s, 1, i - 1) \o LowerAt(IndexOf(UpperCase, SubSeq(s, i, i)) + 1)
       \o toLowerCase(SubSeq(s, i + 1, Len(s)))

\* the number written by a string of decimal digits
RECURSIVE DigitsValue(_)
DigitsValue(s) ==
  IF s = "" THEN 0
  ELSE 10 * DigitsValue(SubSeq(s, 1, Len(s) - 1))
       + IndexOf("0123456789", SubSeq(s, Len(s), Len(s)))

\* the number with integer digits intp and fraction digits frac; a fraction
\* that is not zero is read as one half, the only fraction of the model
DecimalNumber(intp, frac) ==
  IF ~IsDigits(intp) \/ ~IsDigits(frac) \/ (intp = "" /\ frac = "") THEN JsNaN
  ELSE JsNumber(<<DigitsValue(intp), IF AllIn(frac, {"0"}) THEN 0 ELSE 1>>)

\* the number written by s, dot being the 0-based position of its '.' or -1
DecimalAt(s, dot) ==
  IF dot = -1 THEN DecimalNumber(s, "")
  ELSE DecimalNumber(SubstringTo(s, 0, dot), Substring(s, dot + 1))

\* Number(s) for an unsigned numeric string
UnsignedNumber(s) == IF s = "Infinity" THEN JsInfinity ELSE DecimalAt(s, IndexOf(s, "."))

\* -v
Negate(v) ==
  CASE v.s = "NaN"       -> JsNaN
    [] v.s = "Infinity"  -> JsNegInfinity
    [] v.s = "-Infinity" -> JsInfinity
    [] OTHER             -> JsNumber(<<0 - v.n[1] - v.n[2], v.n[2]>>)

\* Number(s) for a trimmed string in decimal notation (hexadecimal, binary,
\* octal and exponent notations are not among the inputs of the model)
NumberOf(s) ==
  IF StartsWith(s, "-") THEN Negate(UnsignedNumber(Tail(s)))
  ELSE IF StartsWith(s, "+") THEN UnsignedNumber(Tail(s))
  ELSE UnsignedNumber(s)

\* v > 0 and v >= 0 for a number v (false for NaN)
GreaterThanZero(v) == v.s = "Infinity" \/ (v.s = "" /\ NumIsPositive(v.n))

AtLeastZero(v) == v.s = "Infinity" \/ (v.s = "" /\ v.n[1] >= 0)

\* Number.isInteger(v) && lo <= v for a number v
IsIntegerFrom(v, lo) == v.s = "" /\ NumIsInteger(v.n) /\ v.n[1] >= lo

DEFAULT_PORT_HTTP == 9000

DEFAULT_PORT_HTTPS == 443

DEFAULT_EXPIRY == 7 * 24 * 60 * 60

DEFAULT_CONNECT_TIMEOUT == 60000

DEFAULT_MAX_RETRIES == 3

DEFAULT_RETRY_DELAY == 1000

MIN_PORT == 1

MAX_PORT == 65535

\* one octet of the IPv4 pattern: 25[0-5]|2[0-4][0-9]|[01]?[0-9][0-9]?
IsOctet(p) ==
  /\ Len(p) \in 1..3
  /\ IsDigits(p)
  /\ Len(p) = 3 => \/ SubSeq(p, 1, 1) \in {"0", "1"}
                   \/ SubSeq(p, 1, 1) = "2" /\ SubSeq(p, 2, 2) \in {"0", "1", "2", "3", "4"}
                   \/ SubSeq(p, 1, 2) = "25" /\ SubSeq(p, 3, 3) \in {"0", "1", "2", "3", "4", "5"}

\* every element of the sequence of strings segs satisfies Test
AllSegments(segs, Test(_)) == \A i \in 1..Len(segs) : Test(segs[i])

\* the IPv4 pattern on the octets between the dots of ip
isValidIPv4Octets(octets) == Len(octets) = 4 /\ AllSegments(octets, IsOctet)

isValidIPv4(ip) == isValidIPv4Octets(SplitOn(ip, {"."}))

\* /^[0-9a-fA-F]{1,4}$/.test(group)
IsHexGroup(group) == Len(group) \in 1..4 /\ AllIn(group, HexDigits)

RECURSIVE countMatchesFrom(_, _, _)
\* (s.match(/p/g) || []).length for a literal p: matches do not overlap
countMatches(s, p) == countMatchesFrom(s, p, IndexOf(s, p))

\* countMatches(s, p), i being the 0-based position of the first match or -1
countMatchesFrom(s, p, i) ==
  IF i = -1 THEN 0 ELSE 1 + countMatches(Substring(s, i + Len(p)), p)

\* part ? part.split(":").filter(g => g.length > 0) : []
groupsOf(part) ==
  IF part = "" THEN <<>> ELSE SelectSeq(SplitOn(part, {":"}), LAMBDA g : Len(g) > 0)

\* isValidIPv6 without compression: exactly 8 groups
isFullIPv6(groups) == Len(groups) = 8 /\ AllSegments(groups, IsHexGroup)

\* isValidIPv6 with one "::": at most 7 groups before and after it
isCompressedIPv6(before, after) ==
  Len(before) + Len(after) <= 7 /\ AllSegments(before \o after, IsHexGroup)

\* isValidIPv6 on an ip with at most one "::", at the 0-based position i or -1
isValidIPv6At(ip, i) ==
  IF i = -1 THEN isFullIPv6(SplitOn(ip, {":"}))
  ELSE isCompressedIPv6(groupsOf(SubstringTo(ip, 0, i)), groupsOf(Substring(ip, i + 2)))

isValidIPv6(ip) ==
  IF countMatches(ip, "::") > 1 THEN FALSE
  ELSE isValidIPv6At(ip, IndexOf(ip, "::"))

\* one label of the hostname pattern: [a-zA-Z0-9]([a-zA-Z0-9-]{0,61}[a-zA-Z0-9])?
IsLabel(label) ==
  /\ Len(label) \in 1..63
  /\ SubSeq(label, 1, 1) \in Alnum
  /\ SubSeq(label, Len(label), Len(label)) \in Alnum
  /\ AllIn(label, Alnum \cup {"-"})

isValidHostname(hostname) ==
  IF hostname = "localhost" THEN TRUE
  ELSE IF isValidIPv4(hostname) \/ isValidIPv6(hostname) THEN TRUE
  ELSE IF Len(hostname) > 253 THEN FALSE
  ELSE AllSegments(SplitOn(hostname, {"."}), IsLabel)

\* isValidBucketName without its checks for an IPv4 address and for ".."
isValidBucketNameCharsOnly(bucket) ==
  /\ Len(bucket) >= 3 /\ Len(bucket) <= 63
  /\ SubSeq(bucket, 1, 1) \in LowerAlnum
  /\ SubSeq(bucket, Len(bucket), Len(bucket)) \in LowerAlnum
  /\ AllIn(bucket, LowerAlnum \cup {".", "-"})

isValidBucketName(bucket) ==
  IF Len(bucket) < 3 \/ Len(bucket) > 63 THEN FALSE
  ELSE IF SubSeq(bucket, 1, 1) \notin LowerAlnum
          \/ SubSeq(bucket, Len(bucket), Len(bucket)) \notin LowerAlnum THEN FALSE
  ELSE IF isValidIPv4(bucket) THEN FALSE
  ELSE IF Includes(bucket, "..") THEN FALSE
  ELSE AllIn(bucket, LowerAlnum \cup {".", "-"})

\* parseNumber on a trimmed string
numberOrUndefined(parsed) == IF parsed.s = "NaN" THEN JsUndefined ELSE parsed

parseTrimmed(trimmed) ==
  IF trimmed = "" THEN JsUndefined ELSE numberOrUndefined(NumberOf(trimmed))

parseNumber(value) ==
  IF value.t = "number" THEN value
  ELSE IF value.t = "string" THEN parseTrimmed(Trim(value.s))
  ELSE JsUndefined

parseBoolean(value) ==
  IF value.t = "boolean" THEN value.b
  ELSE IF value.t = "string" THEN toLowerCase(value.s) = "true"
  ELSE FALSE

\* options.endPoint || options.host
endPointValue(options) ==
  IF JsTruthy(options.endPoint) THEN options.endPoint ELSE options.host

\* !value || typeof value !== "string"
missingOrNotString(value) == ~JsTruthy(value) \/ value.t # "string"

\* useSSL ? DEFAULT_PORT_HTTPS : DEFAULT_PORT_HTTP
defaultPort(useSSL) == IF useSSL THEN DEFAULT_PORT_HTTPS ELSE DEFAULT_PORT_HTTP

\* the parsed port, or the default when it is undefined or not an integer of
\* MIN_PORT..MAX_PORT
portInRange(parsedPort, useSSL) ==
  IF parsedPort.t # "number" \/ ~IsIntegerFrom(parsedPort, MIN_PORT)
     \/ parsedPort.n[1] > MAX_PORT
  THEN defaultPort(useSSL)
  ELSE parsedPort.n[1]

\* autoCorrectPort leaving the HTTP default port under TLS
autoCorrectPortKept(port, useSSL) == port

\* useSSL with the HTTP default port is corrected to the HTTPS default port
autoCorrectPort(port, useSSL) ==
  IF useSSL /\ port = DEFAULT_PORT_HTTP THEN DEFAULT_PORT_HTTPS ELSE port

normalizedPort(port, useSSL) ==
  IF port.t = "undefined" THEN autoCorrectPort(defaultPort(useSSL), useSSL)
  ELSE autoCorrectPort(portInRange(parseNumber(port), useSSL), useSSL)

\* the parsed expiry, or the default unless it is a positive integer
expiryOrDefault(parsedExpiry) ==
  IF parsedExpiry.t # "number" \/ ~IsIntegerFrom(parsedExpiry, 1) THEN Num(DEFAULT_EXPIRY)
  ELSE parsedExpiry.n

normalizedExpiry(expiry) ==
  IF expiry.t = "undefined" THEN Num(DEFAULT_EXPIRY) ELSE expiryOrDefault(parseNumber(expiry))

\* options.rejectUnauthorized === undefined ? true : parseBoolean(...), and the
\* same for keepAlive with false
booleanOrDefault(value, default) ==
  IF value.t = "undefined" THEN default ELSE parseBoolean(value)

\* connectTimeout and requestTimeout: the parsed number when it is > 0
timeoutOr(parsedTimeout, default) ==
  IF parsedTimeout.t = "number" /\ GreaterThanZero(parsedTimeout) THEN parsedTimeout
  ELSE default

\* maxRetries and retryDelay: the parsed number when it is >= 0
countOr(parsed, default) ==
  IF parsed.t = "number" /\ AtLeastZero(parsed) THEN parsed ELSE default

\* the returned configuration, from the trimmed required fields
normalizedConfig(options, endPoint, accessKey, secretKey, bucket, useSSL) ==
  [endPoint |-> endPoint,
   port |-> normalizedPort(options.port, useSSL),
   useSSL |-> useSSL,
   accessKey |-> accessKey,
   secretKey |-> secretKey,
   bucket |-> bucket,
   folder |-> Trim(options.folder.s),
   private |-> parseBoolean(options.private),
   expiry |-> normalizedExpiry(options.expiry),
   connectTimeout |-> timeoutOr(parseNumber(options.connectTimeout),
                                JsNumber(Num(DEFAULT_CONNECT_TIMEOUT))),
   requestTimeout |-> timeoutOr(parseNumber(options.requestTimeout), JsUndefined),
   debug |-> parseBoolean(options.debug),
   rejectUnauthorized |-> booleanOrDefault(options.rejectUnauthorized, TRUE),
   maxRetries |-> countOr(parseNumber(options.maxRetries), JsNumber(Num(DEFAULT_MAX_RETRIES))),
   retryDelay |-> countOr(parseNumber(options.retryDelay), JsNumber(Num(DEFAULT_RETRY_DELAY))),
   keepAlive |-> booleanOrDefault(options.keepAlive, FALSE)]

\* validateAndNormalizeConfig from the trim of the required fields on
validateTrimmed(options, endPoint, accessKey, secretKey, bucket) ==
  IF endPoint = "" THEN Throw("ConfigurationError")
  ELSE IF ~isValidHostname(endPoint) THEN Throw("ConfigurationError")
  ELSE IF accessKey = "" \/ secretKey = "" \/ bucket = "" THEN Throw("ConfigurationError")
  ELSE IF ~isValidBucketName(bucket) THEN Throw("ConfigurationError")
  ELSE Ok(normalizedConfig(options, endPoint, accessKey, secretKey, bucket,
                           parseBoolean(options.useSSL)))

\* validateAndNormalizeConfig once the required fields are non-empty strings:
\* (options.folder || "").trim() is a TypeError on a truthy folder that is
\* not a string
validateStrings(options, endPoint) ==
  IF JsTruthy(options.folder) /\ options.folder.t # "string" THEN Throw("TypeError")
  ELSE validateTrimmed(options, Trim(endPoint.s), Trim(options.accessKey.s),
                       Trim(options.secretKey.s), Trim(options.bucket.s))

validateAndNormalizeConfig(options) ==
  IF missingOrNotString(endPointValue(options)) THEN Throw("ConfigurationError")
  ELSE IF missingOrNotString(options.accessKey) THEN Throw("ConfigurationError")
  ELSE IF missingOrNotString(options.secretKey) THEN Throw("ConfigurationError")
  ELSE IF missingOrNotString(options.bucket) THEN Throw("ConfigurationError")
  ELSE validateStrings(options, endPointValue(options))

(***************************************************************************)
(* provider/minio-provider.ts: the synchronous parts of the operations     *)
(***************************************************************************)

DEFAULT_MIME_TYPE == "application/octet-stream"

\* mime-types lookup(ext) || DEFAULT_MIME_TYPE, for the extensions of the model
createMetadata(file) ==
  IF file.ext \in {".jpg", "jpg"} THEN "image/jpeg"
  ELSE IF file.ext \in {".png", "png"} THEN "image/png"
  ELSE DEFAULT_MIME_TYPE

\* the stream when there is one, else the buffer, else UploadError
getFileContent(file) ==
  IF file.stream # Undefined THEN Ok(file.stream)
  ELSE IF file.buffer # Undefined THEN Ok(file.buffer)
  ELSE Throw("UploadError")

\* normalizeUploadPath leaving the path as buildUploadPath returned it
normalizeUploadPathKept(uploadPath) == uploadPath

\* uploadPath.replace(/\/+/g, "/").replace(/^\/|\/$/g, "")
normalizeUploadPath(uploadPath) == StripEdgeSlashes(CollapseSlashes(uploadPath))

\* the settled state of a promise
Pending == [outcome |-> "none", value |-> Undefined, error |-> "", context |-> [none |-> TRUE]]

Resolved(v) == [outcome |-> "resolved", value |-> v, error |-> "", context |-> [none |-> TRUE]]

Rejected(e, ctx) == [outcome |-> "rejected", value |-> Undefined, error |-> e, context |-> ctx]

\* errorType chosen from the message of the failure
uploadErrorType(errorMessage) ==
  IF Includes(errorMessage, "signature") \/ Includes(errorMessage, "Signature")
     \/ Includes(errorMessage, "does not match") \/ Includes(errorMessage, "InvalidAccessKeyId")
  THEN "SignatureError"
  ELSE IF Includes(errorMessage, "ETIMEDOUT") \/ Includes(errorMessage, "ECONNRESET")
          \/ Includes(errorMessage, "timeout") \/ Includes(errorMessage, "connect")
          \/ Includes(errorMessage, "ENOTFOUND") \/ Includes(errorMessage, "ECONNREFUSED")
  THEN "ConnectionError"
  ELSE IF Includes(errorMessage, "certificate") \/ Includes(errorMessage, "CERT")
  THEN "SSLCertificateError"
  ELSE IF Includes(errorMessage, "bucket") \/ Includes(errorMessage, "Bucket")
  THEN "BucketError"
  ELSE Undefined

\* buildUploadPath(file, folder) || "(path building failed)", inside its own try
uploadPathOrFailed(path) ==
  IF path.ok /\ path.val # "" THEN path.val ELSE "(path building failed)"

\* uploadCatch letting the caught error through unwrapped
uploadCatchRethrow(file, config, errorMessage) ==
  Rejected("Error", [message |-> errorMessage])

\* the catch block of upload: every failure becomes an UploadError
uploadCatch(file, config, errorMessage) ==
  Rejected("UploadError",
           [fileName      |-> file.name,
            fileHash      |-> file.hash,
            fileExtension |-> file.ext,
            uploadPath    |-> uploadPathOrFailed(buildUploadPath(file, config.folder)),
            fileSize      |-> file.size,
            bucket        |-> config.bucket,
            endpoint      |-> config.endPoint,
            port          |-> config.port,
            errorType     |-> uploadErrorType(errorMessage),
            message       |-> errorMessage])

\* the arguments of putObject: the size is passed only when it is positive
\* isPrivate answering false whatever the configuration
isPrivateNever(config) == FALSE

isPrivate(config) == config.private

putObjectCall(config, key, content, file) ==
  [op |-> "putObject", bucket |-> config.bucket, key |-> key, content |-> content,
   size |-> IF file.size > 0 THEN <<file.size>> ELSE <<>>,
   contentType |-> createMetadata(file)]

\* file.url = createFileUrl(normalizedUploadPath, this.hostUrl, this.config.bucket)
uploadedUrl(key, hostUrlOfProvider, config) == createFileUrl(key, hostUrlOfProvider, config.bucket)

\* delete up to its await: the key to remove, or the error that is caught
deleteStart(file, hostUrlOfProvider, config) ==
  IF ~Truthy(file.url) THEN Throw("Error")
  ELSE extractFilePathFromUrl(file.url, hostUrlOfProvider, config.bucket)

\* deleteCatch letting the caught error through unwrapped
deleteCatchRethrow(file, config, errorMessage) ==
  Rejected("Error", [message |-> errorMessage])

\* the catch block of delete
deleteCatch(file, config, errorMessage) ==
  Rejected("DeleteError", [fileUrl |-> file.url, bucket |-> config.bucket,
                           message |-> errorMessage])

\* isAlreadySigned never recognising a presigned URL
isAlreadySignedNever(url) == FALSE

isAlreadySigned(url) == Includes(url, "X-Amz-Algorithm") \/ Includes(url, "signature=")

\* notOwnedByBucket with the early return left out
notOwnedByBucketNever(isFromSameBucket, pathnameHasBucket) == FALSE

\* if (!isFromSameBucket && !pathnameHasBucket) return { url: file.url }
notOwnedByBucket(isFromSameBucket, pathnameHasBucket) ==
  ~isFromSameBucket /\ ~pathnameHasBucket

\* isLegacyFallback without the test of isFromSameBucket
isLegacyFallbackAnyBucketUrl(pathnameHasBucket, isFromSameBucket) == pathnameHasBucket

\* if (pathnameHasBucket && !isFromSameBucket) return { url: file.url }
isLegacyFallback(pathnameHasBucket, isFromSameBucket) ==
  pathnameHasBucket /\ ~isFromSameBucket

\* pathname.substring(bucket.length + 1).replace(/^\//, "")
afterBucket(rest) == IF StartsWith(rest, "/") THEN Tail(rest) ELSE rest

\* the second extraction attempt, urlObj being new URL(file.url)
extractFromParsedPathname(urlObj, bucket) ==
  IF ~urlObj.ok THEN Throw("TypeError")
  ELSE IF StartsWith(urlObj.pathname, "/" \o bucket \o "/")
       THEN Ok(Substring(urlObj.pathname, Len(bucket) + 2))
  ELSE IF StartsWith(urlObj.pathname, "/" \o bucket)
       THEN Ok(afterBucket(Substring(urlObj.pathname, Len(bucket) + 1)))
  ELSE Throw("Error")

\* the second extraction attempt of getSignedUrl, from the pathname of file.url
extractFromPathname(url, bucket) == extractFromParsedPathname(ParseURL(url), bucket)

\* options?.expiresIn || this.config.expiry
signedUrlExpiry(expiresIn, config) ==
  IF NumTruthy(expiresIn) THEN expiresIn ELSE config.expiry

\* the negation of (expiry <= 0 || !Number.isInteger(expiry))
expiryIsValid(expiry) == NumIsPositive(expiry) /\ NumIsInteger(expiry)

\* the catch block of getSignedUrl
signCatch(file, config, expiresIn, isFromSameBucket, pathnameHasBucket, errorMessage) ==
  IF isLegacyFallback(pathnameHasBucket, isFromSameBucket) THEN Resolved(file.url)
  ELSE Rejected("SignedUrlError",
                [fileUrl |-> file.url, bucket |-> config.bucket,
                 expiresIn |-> expiresIn, message |-> errorMessage])

\* getSignedUrl settling before any call of the client
settleSigned(r, same, has) ==
  [step |-> "settle", result |-> r, key |-> "", expiry |-> NoNumber,
   same |-> same, has |-> has]

\* getSignedUrl once the key is extracted and the expiry chosen
signWithExpiry(file, expiresIn, config, same, has, key, expiry) ==
  IF ~expiryIsValid(expiry)
  THEN settleSigned(signCatch(file, config, expiresIn, same, has,
                              "expiresIn must be a positive integer (seconds)"),
                    same, has)
  ELSE [step |-> "presign", result |-> Pending, key |-> key,
        expiry |-> expiry, same |-> same, has |-> has]

\* getSignedUrl after its first extraction attempt
signExtracted(file, expiresIn, config, same, has, filePath) ==
  IF ~filePath.ok THEN settleSigned(Resolved(file.url), same, has)
  ELSE signWithExpiry(file, expiresIn, config, same, has, filePath.val,
                      signedUrlExpiry(expiresIn, config))

\* the first extraction attempt, or the second one when the first threw
extractOrFromPathname(first, url, bucket) ==
  IF first.ok THEN first ELSE extractFromPathname(url, bucket)

\* getSignedUrl once isFromSameBucket and pathnameHasBucket are computed
signOwned(file, expiresIn, config, hostUrlOfProvider, same, has) ==
  IF notOwnedByBucket(same, has) THEN settleSigned(Resolved(file.url), same, has)
  ELSE IF isAlreadySigned(file.url) /\ expiresIn = NoNumber
       THEN settleSigned(Resolved(file.url), same, has)
  ELSE signExtracted(file, expiresIn, config, same, has,
                     extractOrFromPathname(
                       extractFilePathFromUrl(file.url, hostUrlOfProvider, config.bucket),
                       file.url, config.bucket))

\* getSignedUrl up to its await: step = "settle" with the result, or
\* step = "presign" with the arguments of presignedGetObject
getSignedUrlStart(file, expiresIn, config, hostUrlOfProvider) ==
  IF ~Truthy(file.url)
  THEN settleSigned(Rejected("SignedUrlError", [fileName |-> file.name]), FALSE, FALSE)
  ELSE signOwned(file, expiresIn, config, hostUrlOfProvider,
                 isFileFromSameBucket(file.url, config.endPoint, config.bucket),
                 pathnameContainsBucket(file.url, config.bucket))

(***************************************************************************)
(* The inputs of the model                                                 *)
(***************************************************************************)

\* normalized configurations (the result of validateAndNormalizeConfig)
Configs ==
  { [endPoint |-> "localhost", port |-> 9000, useSSL |-> FALSE, bucket |-> "bkt",
     folder |-> "up", private |-> FALSE, expiry |-> Num(3600)],
    [endPoint |-> "s3.io", port |-> 443, useSSL |-> TRUE, bucket |-> "bkt",
     folder |-> "", private |-> TRUE, expiry |-> Num(3600)] }

Buf == "<buffer>"

Strm == "<stream>"

File(hash, ext, size, path, buffer, stream, url) ==
  [name |-> "test" \o ext, hash |-> hash, ext |-> ext, size |-> size, path |-> path,
   buffer |-> buffer, stream |-> stream, url |-> url, provider_metadata |-> Undefined]

\* descriptors handed to upload
UploadInputs ==
  { File("abc", ".jpg", 1024, Undefined, Buf, Undefined, Undefined),
    File("abc", ".jpg", 1024, Undefined, Undefined, Strm, Undefined),
    File("abc", ".png", 0, "a/b", Buf, Undefined, Undefined),
    File("abc", ".jpg", 1024, Undefined, Undefined, Undefined, Undefined),
    File("abc", ".jpg", 1024, Undefined, Buf, Strm, Undefined),
    File("../evil", ".jpg", 1024, Undefined, Buf, Undefined, Undefined),
    File("abc", ".jpg/", 1024, Undefined, Buf, Undefined, Undefined),
    File("abc", "", 1024, Undefined, Buf, Undefined, Undefined),
    File("abc", ".jpg", 1024, "/abs", Buf, Undefined, Undefined),
    File("abc", ".jpg", 1024, Undefined, Buf, Undefined, "http://old.example.com/bkt/f.jpg"),
    File("abc", ".jpg", 1024, Undefined, Undefined, Undefined, "http://old.example.com/bkt/f.jpg") }

\* the URLs of stored records handed to delete and getSignedUrl
UrlInputs(h) ==
  { Undefined, "",
    h \o "bkt/up/abc.jpg",
    h \o "bkt/up/abc.jpg?X-Amz-Algorithm=AWS4&X-Amz-Expires=60",
    h \o "bkt",
    h \o "bkt/f%zz.jpg",
    h \o "bkt/a%20b.jpg",
    "http://old.example.com/bkt/f.jpg",
    "https://old.example.com/bkt/m/f.png?X-Amz-Algorithm=AWS4",
    "http://minio:9000/bkt/f.jpg",
    "http://minio/bkt/f.jpg?signature=abc",
    "http://otherhost:9000/other/file.jpg",
    "https://external-site.com/random/path/file.jpg",
    "http://h.io/x/bkt/f.jpg",
    "files/bkt/f.jpg",
    "not a url" }

Descriptors(h) ==
  UploadInputs \cup
  { File("abc", ".jpg", 1024, Undefined, Undefined, Undefined, u) : u \in UrlInputs(h) }

\* options.expiresIn: absent, 0, -1, 1800 and 1.5
ExpiresInInputs == { NoNumber, Num(0), Num(-1), Num(1800), <<1, 1>> }

\* messages of the errors the object-store client rejects with
ClientErrors == { "Request failed", "NoSuchBucket" }

ETags == { "etag-1" }

(***************************************************************************)
(* Raw options handed to validateAndNormalizeConfig                        *)
(***************************************************************************)

\* a valid configuration with every optional field absent
BaseOptions ==
  [endPoint |-> JsString("localhost"), host |-> JsUndefined, port |-> JsUndefined,
   useSSL |-> JsUndefined, accessKey |-> JsString("test-access-key"),
   secretKey |-> JsString("test-secret-key"), bucket |-> JsString("test-bucket"),
   folder |-> JsUndefined, private |-> JsUndefined, expiry |-> JsUndefined,
   connectTimeout |-> JsUndefined, requestTimeout |-> JsUndefined, debug |-> JsUndefined,
   rejectUnauthorized |-> JsUndefined, maxRetries |-> JsUndefined,
   retryDelay |-> JsUndefined, keepAlive |-> JsUndefined]

A8 == "aaaaaaaa"

\* "a".repeat(64)
A64 == A8 \o A8 \o A8 \o A8 \o A8 \o A8 \o A8 \o A8

\* "a".repeat(63)
A63 == SubSeq(A64, 1, 63)

\* a hostname of 253 characters in four labels
Host253 == A63 \o "." \o A63 \o "." \o A63 \o "." \o SubSeq(A63, 1, 61)

\* values of a required field that are missing, not strings or blank
UnusableInputs ==
  { JsUndefined, JsNull, JsString(""), JsString("   "), JsNumber(Num(5)), JsBoolean(TRUE) }

EndPointInputs ==
  { JsString(s) : s \in
      { "localhost", "  localhost  ", "example.com", "s3.example-1.com", "MinIO.Local",
        "192.168.1.1", "256.1.1.1", "1.2.3", "::1", "2001:db8::", "fe80::",
        "2001:db8::8a2e:370:7334", "2001:0db8:85a3:0000:0000:8a2e:0370:7334",
        "1:2:3:4:5:6:7::", "1:2:3:4:5:6:7::8", "1:2:3:4:5:6:7:8:9", "1::2::3",
        ":::", "1:::2", ":1::2", "1::2:", "12345::", "g::1", "1:2",
        "invalid..hostname", "-a.com", "a-.com", "a_b.com", "my host", ".com", "a.",
        "http://localhost", "localhost:9000",
        A63 \o ".io", A64 \o ".io", Host253, Host253 \o "a" } }

BucketInputs ==
  { JsString(s) : s \in
      { "test-bucket", "  test-bucket  ", "my-bucket-123", "ab", "abc", "a-c", "a.c",
        "-invalid-bucket", "invalid-bucket-", ".ab", "ab.", "192.168.1.1", "256.1.1.1",
        "1.2.3", "invalid..bucket", "a.-b", "Invalid-Bucket", "abC", "a_b", "a b", "a/b",
        "a\\b", A63, A64 } }

PortInputs ==
  { JsUndefined, JsNull, JsBoolean(TRUE), JsNaN, JsInfinity,
    JsNumber(Num(9000)), JsNumber(Num(443)), JsNumber(Num(9001)), JsNumber(Num(0)),
    JsNumber(Num(1)), JsNumber(Num(-1)), JsNumber(Num(65535)), JsNumber(Num(65536)),
    JsNumber(<<1, 1>>),
    JsString("9001"), JsString("  9001  "), JsString("9000"), JsString("443"),
    JsString("not-a-number"), JsString(""), JsString("70000"), JsString("80.5"),
    JsString("-80"), JsString("8080.0") }

BooleanInputs ==
  { JsUndefined, JsNull, JsBoolean(TRUE), JsBoolean(FALSE), JsString("true"),
    JsString("TRUE"), JsString("false"), JsString("yes"), JsString(""), JsString(" true "),
    JsNumber(Num(1)) }

NumberInputs ==
  { JsUndefined, JsNull, JsBoolean(TRUE), JsNaN, JsInfinity,
    JsNumber(Num(3600)), JsNumber(Num(0)), JsNumber(Num(-1)), JsNumber(<<1, 1>>),
    JsString("3600"), JsString(" 7200 "), JsString("abc"), JsString(""), JsString("0"),
    JsString("-5"), JsString("2.5") }

FolderInputs == { JsUndefined, JsString(" uploads "), JsNumber(Num(5)) }

\* the required fields, one at a time, usable or not, with the optional
\* fields folder and private around them
RequiredFieldOptions ==
  UNION { { [BaseOptions EXCEPT !.endPoint = v, !.folder = f, !.private = p],
            [BaseOptions EXCEPT !.accessKey = v, !.folder = f, !.private = p],
            [BaseOptions EXCEPT !.secretKey = v, !.folder = f, !.private = p],
            [BaseOptions EXCEPT !.bucket = v, !.folder = f, !.private = p] } :
          v \in UnusableInputs, f \in FolderInputs, p \in {JsUndefined, JsString("true")} }

\* endPoint and its alias host
AliasOptions ==
  { [BaseOptions EXCEPT !.endPoint = e, !.host = h] :
      e \in {JsUndefined, JsString(""), JsString("   "), JsString("localhost")},
      h \in UnusableInputs \cup {JsString("s3.example.com"), JsString("bad..host")} }

FormatOptions ==
  { [BaseOptions EXCEPT !.endPoint = e] : e \in EndPointInputs }
  \cup { [BaseOptions EXCEPT !.bucket = b] : b \in BucketInputs }

PortOptions ==
  { [BaseOptions EXCEPT !.port = p, !.useSSL = u] :
      p \in PortInputs, u \in {JsUndefined, JsBoolean(TRUE), JsString("true"), JsString("no")} }

BooleanOptions ==
  UNION { { [BaseOptions EXCEPT !.useSSL = v], [BaseOptions EXCEPT !.private = v],
            [BaseOptions EXCEPT !.debug = v], [BaseOptions EXCEPT !.rejectUnauthorized = v],
            [BaseOptions EXCEPT !.keepAlive = v] } : v \in BooleanInputs }

NumberOptions ==
  UNION { { [BaseOptions EXCEPT !.expiry = v], [BaseOptions EXCEPT !.connectTimeout = v],
            [BaseOptions EXCEPT !.requestTimeout = v], [BaseOptions EXCEPT !.maxRetries = v],
            [BaseOptions EXCEPT !.retryDelay = v] } : v \in NumberInputs }

RawOptions ==
  RequiredFieldOptions \cup AliasOptions \cup FormatOptions \cup PortOptions
  \cup BooleanOptions \cup NumberOptions

(***************************************************************************)
(* Arguments handed to buildUploadPath and extractFilePathFromUrl          *)
(***************************************************************************)

\* folder arguments and file.path values
PathPartInputs ==
  { Undefined, "", "uploads", " uploads ", "my uploads", "a/b", "a//b", "a\\b", "up/",
    "a/./b", "2024\tabc", "../../../etc", "a/../b", "a/ .. /b", "..", "a..b", "~", "~home",
    "a/~b", "/absolute", "\\absolute", " /absolute", "\t\\absolute" }

HashInputs ==
  { "abc123", Undefined, "", NonString, "   ", "\t", " abc ", "a b", "a.b", "a.", ".a", "a/b",
    "a\\b", "../../../etc/passwd", "a..b", "~x", "/x", "\\x", "a%20b", "a%2Fb", "a%zz",
    "a?b", "a#b", "a\nb" }

ExtInputs ==
  { ".jpg", "jpg", Undefined, "", NonString, ".", "   ", ".\t", " .jpg", ".tar.gz", "..jpg",
    ".jpg.", ".jpg/", "./x", ".~", ".j pg", ".a?b" }

\* the file and folder arguments of buildUploadPath: every folder with every
\* file.path, and every hash with every extension, without and with a folder
BuildInputs ==
  { [file |-> File("abc123", ".jpg", 1024, p, Undefined, Undefined, Undefined), folder |-> f] :
      f \in PathPartInputs, p \in PathPartInputs }
  \cup
  { [file |-> File(h, e, 1024, Undefined, Undefined, Undefined, Undefined), folder |-> f] :
      h \in HashInputs, e \in ExtInputs, f \in {"", "uploads"} }

\* url arguments of extractFilePathFromUrl for the host URL h
ExtractInputs(h) ==
  UrlInputs(h) \cup
  { h \o "bkt/", h \o "bkt/a b.jpg", h \o "bkt/a/../b.jpg", h \o "bkt/up/abc.jpg#top",
    h \o "other/bkt/f.jpg", h \o "bktx/f.jpg",
    "http://h.io/bkt", "http://h.io/bkt/", "http://h.io/bkt?x=1", "http://h.io/bkt/a b.jpg",
    "https://cdn.io/bkt/x/f.jpg?v=1#frag", "http://h.io/x/y/bkt/z/f.jpg",
    "http://h.io/r/" \o h \o "bkt/f.jpg", "http://h.io/other/f.jpg",
    "/bkt/f.jpg", "bkt/f.jpg", "see " \o h \o "bkt/f.jpg" }

(***************************************************************************)
(* State                                                                   *)
(***************************************************************************)

VARIABLES
  config,    \* MinioProvider.config
  hostUrl,   \* MinioProvider.hostUrl
  files,     \* the File Descriptors of the caller, by name
  ops,       \* the call in progress or last settled on each descriptor: its
             \* position, the client calls it made, its locals and its result
  call,      \* the call of a utility function: its name, its arguments and,
             \* once done, what it returned or threw
  env,       \* process.env.NODE_ENV and process.platform
  probe      \* the bucket-existence check: MinioProvider.bucketCheckCache, the
             \* clock, the checks that await bucketExists and the last step

vars == <<config, hostUrl, files, ops, call, env, probe>>

\* no utility function is being called
NoCall == [fn |-> "none", args |-> <<>>, done |-> FALSE, returned |-> Ok("")]

\* the call of fn on args, before it runs
Calling(fn, args) == [fn |-> fn, args |-> args, done |-> FALSE, returned |-> Ok("")]

\* a readable stream by its readableEnded and destroyed properties
StreamStates == [readableEnded : BOOLEAN, destroyed : BOOLEAN]

\* a stream that has neither ended nor been destroyed
LiveStream == [readableEnded |-> FALSE, destroyed |-> FALSE]

\* ensureStreamClosed before it is called: no listener, no timer, resolve not called
NoCloser ==
  [listening |-> FALSE, timer |-> FALSE, timeoutMs |-> 0, resolved |-> FALSE,
   delay |-> FALSE, resolves |-> 0, event |-> "none"]

IdleOp ==
  [kind |-> "none", pc |-> "idle", calls |-> <<>>, result |-> Pending,
   before |-> File(Undefined, Undefined, 0, Undefined, Undefined, Undefined, Undefined),
   expiresIn |-> NoNumber, key |-> "", content |-> Undefined,
   expiry |-> NoNumber, same |-> FALSE, has |-> FALSE, credTest |-> "none",
   stream |-> LiveStream, closer |-> NoCloser, clientError |-> Undefined]

\* the provider after its construction
ProviderInit ==
  /\ config \in Configs
  /\ hostUrl = buildHostUrl(config)
  /\ files = [f \in {"f1"} |-> File("abc", ".jpg", 1024, Undefined, Buf, Undefined, Undefined)]
  /\ ops = [f \in {"f1"} |-> IdleOp]

\* the environments of the process
Envs == [NODE_ENV : {"test", "production"}, platform : {"win32", "linux"}]

\* the environment of the unit tests
JestEnv == [NODE_ENV |-> "test", platform |-> "linux"]

\* bucketCheckCache = null
NoCache == [set |-> FALSE, exists |-> FALSE, timestamp |-> 0]

\* no step of a bucket-existence check has been taken
NoStep ==
  [event |-> "none", promise |-> "none", useCache |-> FALSE, silent |-> FALSE,
   cacheBefore |-> NoCache, at |-> 0, exists |-> FALSE]

\* the bucket-existence check after the construction of the adapter: the
\* constructor schedules one check with process.nextTick unless NODE_ENV is "test"
ProbeInit(e) ==
  [scheduled |-> e.NODE_ENV # "test", cache |-> NoCache, now |-> 0, pending |-> 0,
   bucketExistsCalls |-> 0, last |-> NoStep]

\* the state in which the utility functions are called
UtilityInit == ProviderInit /\ env = JestEnv /\ probe = ProbeInit(JestEnv)

Init == ProviderInit /\ call = NoCall /\ env \in Envs /\ probe = ProbeInit(env)

Settled(f) == f \in DOMAIN files /\ ops[f].pc \in {"idle", "done"}

\* the host hands the adapter another descriptor
NewDescriptor(f, d) ==
  /\ Settled(f)
  /\ d \in Descriptors(hostUrl)
  /\ files' = [files EXCEPT ![f] = d]
  /\ ops' = [ops EXCEPT ![f] = [IdleOp EXCEPT !.before = d]]
  /\ UNCHANGED <<env, probe, call, config, hostUrl>>

(***************************************************************************)
(* The bucket-existence check                                              *)
(***************************************************************************)

BUCKET_CHECK_CACHE_TTL == 5 * 60 * 1000

\* the clock (Date.now()) advances by whole minutes, up to MaxMinutes
MinuteMs == 60 * 1000

MaxMinutes == 7

\* the number of bucketExists calls the checks make at most
MaxChecks == 3

\* a step of a check, taken at the time `at` with the cache cacheBefore, and
\* the state of the promise of the check after it
Step(event, promise, silent, useCache, p, exists) ==
  [event |-> event, promise |-> promise, useCache |-> useCache, silent |-> silent,
   cacheBefore |-> p.cache, at |-> p.now, exists |-> exists]

\* isBucketCheckCacheValid finding no entry valid
isBucketCheckCacheValidNever(cache, now) == FALSE

isBucketCheckCacheValid(cache, now) ==
  IF ~cache.set THEN FALSE
  ELSE now - cache.timestamp < BUCKET_CHECK_CACHE_TTL

\* checkBucketExists(silent, useCache) up to its return on a valid cache entry
\* or to its await of client.bucketExists
checkBucketExists(p, silent, useCache) ==
  IF useCache /\ isBucketCheckCacheValid(p.cache, p.now)
  THEN [p EXCEPT !.last = Step("cached", "resolved", silent, useCache, p, p.cache.exists)]
  ELSE [p EXCEPT !.pending = @ + 1, !.bucketExistsCalls = @ + 1,
                 !.last = Step("called", "pending", silent, useCache, p, FALSE)]

\* checkBucketExists after client.bucketExists resolved with exists
bucketExistsResolved(p, exists) ==
  [p EXCEPT !.pending = @ - 1,
            !.cache = [set |-> TRUE, exists |-> exists, timestamp |-> p.now],
            !.last = Step("resolved", "resolved", FALSE, FALSE, p, exists)]

\* checkBucketExists after client.bucketExists rejected: the catch block
\* logs and the check returns
bucketExistsRejected(p) ==
  [p EXCEPT !.pending = @ - 1, !.last = Step("rejected", "resolved", FALSE, FALSE, p, FALSE)]

\* the check the constructor scheduled with process.nextTick runs
ConstructorProbe ==
  /\ probe.scheduled
  /\ probe' = [checkBucketExists(probe, FALSE, TRUE) EXCEPT !.scheduled = FALSE]
  /\ UNCHANGED <<env, call, config, hostUrl, files, ops>>

\* checkBucketExists(silent, useCache) is called
CheckBucketExists(silent, useCache) ==
  /\ probe.bucketExistsCalls < MaxChecks
  /\ probe' = checkBucketExists(probe, silent, useCache)
  /\ UNCHANGED <<env, call, config, hostUrl, files, ops>>

\* the bucketExists call of a check resolves
ProbeResolve(exists) ==
  /\ probe.pending > 0
  /\ probe' = bucketExistsResolved(probe, exists)
  /\ UNCHANGED <<env, call, config, hostUrl, files, ops>>

\* the bucketExists call of a check rejects
ProbeReject ==
  /\ probe.pending > 0
  /\ probe' = bucketExistsRejected(probe)
  /\ UNCHANGED <<env, call, config, hostUrl, files, ops>>

\* a minute passes
Tick ==
  /\ probe.now < MaxMinutes * MinuteMs
  /\ probe' = [probe EXCEPT !.now = @ + MinuteMs,
                            !.last = Step("tick", "none", FALSE, FALSE, probe, FALSE)]
  /\ UNCHANGED <<env, call, config, hostUrl, files, ops>>

(***************************************************************************)
(* upload                                                                  *)
(***************************************************************************)

\* upload(file) up to its first await, the bucketExists credentials test
CallUpload(f) ==
  LET file    == files[f]
      path    == buildUploadPath(file, config.folder)
      content == getFileContent(file)
      start   == [IdleOp EXCEPT !.kind = "upload", !.before = file]
  IN  /\ Settled(f)
      /\ ops' = [ops EXCEPT ![f] =
           IF ~path.ok
           THEN [start EXCEPT !.pc = "done",
                              !.result = uploadCatch(file, config, "path traversal")]
           ELSE IF ~content.ok
           THEN [start EXCEPT !.pc = "done",
                              !.result = uploadCatch(file, config,
                                  "File must have either stream or buffer property")]
           ELSE [start EXCEPT !.pc = "credtest",
                              !.key = normalizeUploadPath(path.val),
                              !.content = content.val,
                              !.calls = <<[op |-> "bucketExists", bucket |-> config.bucket]>>]]
      /\ UNCHANGED <<env, probe, call, config, hostUrl, files>>

\* the credentials test settles (its failure is only logged) and putObject is called
UploadCredTestSettle(f, succeeded) ==
  /\ f \in DOMAIN files
  /\ ops[f].kind = "upload" /\ ops[f].pc = "credtest"
  /\ ops' = [ops EXCEPT ![f].pc = "put",
                        ![f].credTest = IF succeeded THEN "passed" ELSE "failed",
                        ![f].calls = Append(@, putObjectCall(config, ops[f].key,
                                                            ops[f].content, files[f]))]
  /\ UNCHANGED <<env, probe, call, config, hostUrl, files>>

\* UploadFinish of an adapter that keeps the object name in a field of its
\* own: the URL is made from the key of another upload that is in flight
UploadFinishSharedKey(f, op) ==
  LET others == {g \in DOMAIN ops : /\ g # f /\ ops[g].kind = "upload"
                                    /\ ops[g].pc \in {"credtest", "put", "closing"}}
      key    == IF others = {} THEN op.key ELSE ops[CHOOSE g \in others : TRUE].key
  IN  /\ files' = [files EXCEPT ![f].url = uploadedUrl(key, hostUrl, config)]
      /\ ops' = [ops EXCEPT ![f] = [op EXCEPT !.pc = "done", !.result = Resolved(Undefined)]]

\* the end of upload after putObject and ensureStreamClosed: file.url is set
UploadFinish(f, op) ==
  /\ files' = [files EXCEPT ![f].url = uploadedUrl(op.key, hostUrl, config)]
  /\ ops' = [ops EXCEPT ![f] = [op EXCEPT !.pc = "done", !.result = Resolved(Undefined)]]

\* ensureStreamClosed(content) returns at once: content is no Readable, or
\* the stream has ended or been destroyed
closedAtOnce(content, stream) ==
  content # Strm \/ stream.readableEnded \/ stream.destroyed

\* the default of the parameter timeoutMs of ensureStreamClosed
STREAM_CLOSE_TIMEOUT == 30000

\* ensureStreamClosed attaching its listeners without arming a timer
closerArmedWithoutTimer == [NoCloser EXCEPT !.listening = TRUE]

\* ensureStreamClosed after it attached its listeners, armed its timer and
\* called stream.resume()
closerArmed ==
  [NoCloser EXCEPT !.listening = TRUE, !.timer = TRUE, !.timeoutMs = STREAM_CLOSE_TIMEOUT]

\* cleanup(): the timer is cleared and the listeners are removed, once
cleanup(closer) ==
  IF closer.resolved THEN closer
  ELSE [closer EXCEPT !.resolved = TRUE, !.timer = FALSE, !.listening = FALSE]

\* resolve() is called
resolveCalled(closer) == [closer EXCEPT !.resolves = @ + 1]

\* the stream after the handler of the event ran: onEnd closes and destroys
\* it, 'close' is emitted by a destroyed stream, the timeout destroys it, and
\* after 'error' it is destroyed if it was made with autoDestroy
streamAfter(event, stream, autoDestroy) ==
  CASE event = "end"     -> [readableEnded |-> TRUE, destroyed |-> TRUE]
    [] event = "close"   -> [stream EXCEPT !.destroyed = TRUE]
    [] event = "timeout" -> [stream EXCEPT !.destroyed = TRUE]
    [] OTHER             -> [stream EXCEPT !.destroyed = autoDestroy]

\* the closer after onEnd, onClose, onError or the timeout callback ran: on
\* Windows onEnd calls resolve() from a timer of 10 ms
closerAfter(event, closer, platform) ==
  IF event = "end" /\ platform = "win32"
  THEN [cleanup(closer) EXCEPT !.delay = TRUE, !.event = event]
  ELSE [resolveCalled(cleanup(closer)) EXCEPT !.event = event]

\* putObject resolves, leaving the stream as `after`, and ensureStreamClosed
\* is called: a stream that has not ended is waited for
UploadPutResolve(f, etag, after) ==
  /\ f \in DOMAIN files
  /\ ops[f].kind = "upload" /\ ops[f].pc = "put"
  /\ ops[f].content # Strm => after = LiveStream
  /\ IF closedAtOnce(ops[f].content, after)
     THEN UploadFinish(f, [ops[f] EXCEPT !.stream = after])
     ELSE /\ ops' = [ops EXCEPT ![f].pc = "closing", ![f].stream = after,
                                ![f].closer = closerArmed]
          /\ UNCHANGED files
  /\ UNCHANGED <<env, probe, call, config, hostUrl>>

\* putObject rejects, leaving the stream as `after`
UploadPutReject(f, errorMessage, after) ==
  /\ f \in DOMAIN files
  /\ ops[f].kind = "upload" /\ ops[f].pc = "put"
  /\ ops[f].content # Strm => after = LiveStream
  /\ ops' = [ops EXCEPT ![f].pc = "done", ![f].clientError = errorMessage,
                        ![f].stream = after,
                        ![f].result = uploadCatch(files[f], config, errorMessage)]
  /\ UNCHANGED <<env, probe, call, config, hostUrl, files>>

\* the stream emits 'end', 'close' or 'error', or the timer of
\* ensureStreamClosed fires: the handler runs if it is still attached, and
\* upload goes on when it called resolve()
UploadStreamClosed(f, event, autoDestroy) ==
  /\ f \in DOMAIN files
  /\ ops[f].kind = "upload" /\ ops[f].pc = "closing"
  /\ IF event = "timeout" THEN ops[f].closer.timer ELSE ops[f].closer.listening
  /\ event # "error" => autoDestroy
  /\ IF closerAfter(event, ops[f].closer, env.platform).delay
     THEN /\ ops' = [ops EXCEPT ![f].stream = streamAfter(event, @, autoDestroy),
                                ![f].closer = closerAfter(event, @, env.platform)]
          /\ UNCHANGED files
     ELSE UploadFinish(f, [ops[f] EXCEPT
                             !.stream = streamAfter(event, @, autoDestroy),
                             !.closer = closerAfter(event, @, env.platform)])
  /\ UNCHANGED <<env, probe, call, config, hostUrl>>

\* on Windows, the timer that onEnd set fires and calls resolve()
UploadCloseDelay(f) ==
  /\ f \in DOMAIN files
  /\ ops[f].kind = "upload" /\ ops[f].pc = "closing" /\ ops[f].closer.delay
  /\ UploadFinish(f, [ops[f] EXCEPT !.closer = [resolveCalled(@) EXCEPT !.delay = FALSE]])
  /\ UNCHANGED <<env, probe, call, config, hostUrl>>

(***************************************************************************)
(* delete                                                                  *)
(***************************************************************************)

CallDelete(f) ==
  LET file  == files[f]
      key   == deleteStart(file, hostUrl, config)
      start == [IdleOp EXCEPT !.kind = "delete", !.before = file]
  IN  /\ Settled(f)
      /\ ops' = [ops EXCEPT ![f] =
           IF ~key.ok
           THEN [start EXCEPT !.pc = "done",
                              !.result = deleteCatch(file, config, "no file path")]
           ELSE [start EXCEPT !.pc = "remove", !.key = key.val,
                              !.calls = <<[op |-> "removeObject", bucket |-> config.bucket,
                                           key |-> key.val]>>]]
      /\ UNCHANGED <<env, probe, call, config, hostUrl, files>>

DeleteRemoveResolve(f) ==
  /\ f \in DOMAIN files
  /\ ops[f].kind = "delete" /\ ops[f].pc = "remove"
  /\ ops' = [ops EXCEPT ![f].pc = "done", ![f].result = Resolved(Undefined)]
  /\ UNCHANGED <<env, probe, call, config, hostUrl, files>>

DeleteRemoveReject(f, errorMessage) ==
  /\ f \in DOMAIN files
  /\ ops[f].kind = "delete" /\ ops[f].pc = "remove"
  /\ ops' = [ops EXCEPT ![f].pc = "done", ![f].clientError = errorMessage,
                        ![f].result = deleteCatch(files[f], config, errorMessage)]
  /\ UNCHANGED <<env, probe, call, config, hostUrl, files>>

(***************************************************************************)
(* getSignedUrl                                                            *)
(***************************************************************************)

CallGetSignedUrl(f, expiresIn) ==
  LET file  == files[f]
      s     == getSignedUrlStart(file, expiresIn, config, hostUrl)
      start == [IdleOp EXCEPT !.kind = "getSignedUrl", !.before = file,
                              !.expiresIn = expiresIn, !.same = s.same, !.has = s.has]
  IN  /\ Settled(f)
      /\ ops' = [ops EXCEPT ![f] =
           IF s.step = "settle"
           THEN [start EXCEPT !.pc = "done", !.result = s.result]
           ELSE [start EXCEPT !.pc = "presign", !.key = s.key, !.expiry = s.expiry,
                              !.calls = <<[op |-> "presignedGetObject",
                                           bucket |-> config.bucket,
                                           key |-> s.key, expiry |-> s.expiry]>>]]
      /\ UNCHANGED <<env, probe, call, config, hostUrl, files>>

\* the URL the object store signs for a key
PresignedUrl(key) == hostUrl \o config.bucket \o "/" \o key \o "?X-Amz-Algorithm=AWS4"

GetSignedUrlPresignResolve(f) ==
  /\ f \in DOMAIN files
  /\ ops[f].kind = "getSignedUrl" /\ ops[f].pc = "presign"
  /\ ops' = [ops EXCEPT ![f].pc = "done", ![f].result = Resolved(PresignedUrl(ops[f].key))]
  /\ UNCHANGED <<env, probe, call, config, hostUrl, files>>

GetSignedUrlPresignReject(f, errorMessage) ==
  /\ f \in DOMAIN files
  /\ ops[f].kind = "getSignedUrl" /\ ops[f].pc = "presign"
  /\ ops' = [ops EXCEPT ![f].pc = "done", ![f].clientError = errorMessage,
                        ![f].result = signCatch(files[f], config, ops[f].expiresIn,
                                                ops[f].same, ops[f].has, errorMessage)]
  /\ UNCHANGED <<env, probe, call, config, hostUrl, files>>

(***************************************************************************)
(* Specification                                                           *)
(***************************************************************************)

\* the names a descriptor can have
FileNames == {"f1", "f2"}

\* the descriptors of all configurations
AllDescriptors == UNION {Descriptors(buildHostUrl(c)) : c \in Configs}

Next ==
  \/ \E f \in FileNames, d \in AllDescriptors : NewDescriptor(f, d)
  \/ ConstructorProbe
  \/ \E exists \in BOOLEAN : ProbeResolve(exists)
  \/ ProbeReject
  \/ \E f \in FileNames : CallUpload(f)
  \/ \E f \in FileNames, succeeded \in BOOLEAN : UploadCredTestSettle(f, succeeded)
  \/ \E f \in FileNames, etag \in ETags, after \in StreamStates :
       UploadPutResolve(f, etag, after)
  \/ \E f \in FileNames, m \in ClientErrors, after \in StreamStates :
       UploadPutReject(f, m, after)
  \/ \E f \in FileNames, event \in {"end", "close", "error", "timeout"},
        autoDestroy \in BOOLEAN : UploadStreamClosed(f, event, autoDestroy)
  \/ \E f \in FileNames : UploadCloseDelay(f)
  \/ \E f \in FileNames : CallDelete(f)
  \/ \E f \in FileNames : DeleteRemoveResolve(f)
  \/ \E f \in FileNames, m \in ClientErrors : DeleteRemoveReject(f, m)
  \/ \E f \in FileNames, e \in ExpiresInInputs : CallGetSignedUrl(f, e)
  \/ \E f \in FileNames : GetSignedUrlPresignResolve(f)
  \/ \E f \in FileNames, m \in ClientErrors : GetSignedUrlPresignReject(f, m)

Spec == Init /\ [][Next]_vars

(***************************************************************************)
(* Specification of the adapter with its accessor isPrivate                *)
(***************************************************************************)

\* isPrivate() is called and returns
IsPrivate ==
  /\ call' = [fn |-> "isPrivate", args |-> <<>>, done |-> TRUE,
              returned |-> Ok(isPrivate(config))]
  /\ UNCHANGED <<env, probe, config, hostUrl, files, ops>>

NextAccessor == Next \/ IsPrivate

SpecAccessor == Init /\ [][NextAccessor]_vars

(***************************************************************************)
(* Specification of the bucket-existence check                             *)
(***************************************************************************)

InitProbe == ProviderInit /\ call = NoCall /\ env \in Envs /\ probe = ProbeInit(env)

NextProbe ==
  \/ ConstructorProbe
  \/ \E silent \in BOOLEAN, useCache \in BOOLEAN : CheckBucketExists(silent, useCache)
  \/ \E exists \in BOOLEAN : ProbeResolve(exists)
  \/ ProbeReject
  \/ Tick

SpecProbe == InitProbe /\ [][NextProbe]_vars

(***************************************************************************)
(* Specification of concurrent calls on two descriptors                    *)
(***************************************************************************)

\* the descriptors of the concurrent calls: f1 to upload from a stream, and
\* f2 that was uploaded before
ConcurrentInputs(h) ==
  [f \in FileNames |->
     IF f = "f1" THEN File("abc", ".jpg", 1024, Undefined, Undefined, Strm, Undefined)
     ELSE File("def", ".png", 2048, Undefined, Buf, Undefined, h \o "bkt/up/def.png")]

\* the message of the error the client rejects the concurrent calls with
ConcurrentErrors == { "Request failed" }

\* options.expiresIn of the concurrent calls
ConcurrentExpiresIn == { NoNumber, Num(1800) }

InitConcurrent ==
  /\ config \in Configs
  /\ hostUrl = buildHostUrl(config)
  /\ files = ConcurrentInputs(hostUrl)
  /\ ops = [f \in FileNames |-> IdleOp]
  /\ call = NoCall
  /\ env \in {e \in Envs : e.NODE_ENV = "test"}
  /\ probe = ProbeInit(env)

NextConcurrent ==
  \/ \E f \in FileNames : CallUpload(f)
  \/ \E f \in FileNames, succeeded \in BOOLEAN : UploadCredTestSettle(f, succeeded)
  \/ \E f \in FileNames, etag \in ETags, after \in StreamStates :
       UploadPutResolve(f, etag, after)
  \/ \E f \in FileNames, m \in ConcurrentErrors, after \in StreamStates :
       UploadPutReject(f, m, after)
  \/ \E f \in FileNames, event \in {"end", "close", "error", "timeout"},
        autoDestroy \in BOOLEAN : UploadStreamClosed(f, event, autoDestroy)
  \/ \E f \in FileNames : UploadCloseDelay(f)
  \/ \E f \in FileNames : CallDelete(f)
  \/ \E f \in FileNames : DeleteRemoveResolve(f)
  \/ \E f \in FileNames, m \in ConcurrentErrors : DeleteRemoveReject(f, m)
  \/ \E f \in FileNames, e \in ConcurrentExpiresIn : CallGetSignedUrl(f, e)
  \/ \E f \in FileNames : GetSignedUrlPresignResolve(f)
  \/ \E f \in FileNames, m \in ConcurrentErrors : GetSignedUrlPresignReject(f, m)

SpecConcurrent == InitConcurrent /\ [][NextConcurrent]_vars

\* the timers of ensureStreamClosed fire: the event loop runs the callback of
\* a timer that stays armed
TimersFire ==
  \A f \in FileNames :
    /\ WF_vars(UploadStreamClosed(f, "timeout", TRUE))
    /\ WF_vars(UploadCloseDelay(f))

SpecConcurrentFair == SpecConcurrent /\ TimersFire

(***************************************************************************)
(* Specification of the calls on one descriptor after its upload           *)
(***************************************************************************)

\* normalized configurations, one of them with a space in options.folder
LifecycleConfigs ==
  Configs \cup
  { [endPoint |-> "localhost", port |-> 9000, useSSL |-> FALSE, bucket |-> "bkt",
     folder |-> "my uploads", private |-> TRUE, expiry |-> Num(3600)] }

\* the descriptors handed to upload, one of them with a space in file.hash
LifecycleInputs ==
  { File("abc", ".jpg", 1024, Undefined, Buf, Undefined, Undefined),
    File("abc", ".png", 0, "a/b", Buf, Undefined, Undefined),
    File("abc", ".jpg", 1024, Undefined, Undefined, Strm, Undefined),
    File("my file", ".jpg", 1024, Undefined, Buf, Undefined, Undefined) }

InitLifecycle ==
  /\ config \in LifecycleConfigs
  /\ hostUrl = buildHostUrl(config)
  /\ files \in {[f \in {"f1"} |-> d] : d \in LifecycleInputs}
  /\ ops = [f \in {"f1"} |-> IdleOp]
  /\ call = NoCall
  /\ env \in {e \in Envs : e.NODE_ENV = "test"}
  /\ probe = ProbeInit(env)

NextLifecycle ==
  \/ CallUpload("f1")
  \/ \E succeeded \in BOOLEAN : UploadCredTestSettle("f1", succeeded)
  \/ \E etag \in ETags, after \in StreamStates : UploadPutResolve("f1", etag, after)
  \/ \E m \in ConcurrentErrors, after \in StreamStates : UploadPutReject("f1", m, after)
  \/ \E event \in {"end", "close", "error", "timeout"}, autoDestroy \in BOOLEAN :
       UploadStreamClosed("f1", event, autoDestroy)
  \/ UploadCloseDelay("f1")
  \/ CallDelete("f1")
  \/ DeleteRemoveResolve("f1")
  \/ \E m \in ConcurrentErrors : DeleteRemoveReject("f1", m)
  \/ \E e \in ConcurrentExpiresIn : CallGetSignedUrl("f1", e)
  \/ GetSignedUrlPresignResolve("f1")
  \/ \E m \in ConcurrentErrors : GetSignedUrlPresignReject("f1", m)

SpecLifecycle == InitLifecycle /\ [][NextLifecycle]_vars

(***************************************************************************)
(* Specification of the configuration validator                            *)
(***************************************************************************)

InitConfig ==
  /\ UtilityInit
  /\ call \in {Calling("validateAndNormalizeConfig", options) : options \in RawOptions}

\* validateAndNormalizeConfig(options) runs
ValidateConfig ==
  /\ call.fn = "validateAndNormalizeConfig" /\ ~call.done
  /\ call' = [call EXCEPT !.done = TRUE, !.returned = validateAndNormalizeConfig(call.args)]
  /\ UNCHANGED <<env, probe, config, hostUrl, files, ops>>

NextConfig == ValidateConfig

SpecConfig == InitConfig /\ [][NextConfig]_vars

\* keys of stored objects, and what a URL carries after the key: a query
\* string and/or a fragment, written literally or percent-encoded
SuffixedKeys == {"f.jpg", "up/abc123.jpg", "a/b/c.png"}

UrlSuffixes ==
  { "?X-Amz-Expires=60", "#top", "?v=1#frag", "#frag?v=1", "?", "#",
    "%3FX-Amz-Expires=60", "%23top", "%3Fv=1%23frag", "?path=a%2Fb", "?q=a%20b",
    "?discount=100%", "?name=caf%E9", "#100%" }

(***************************************************************************)
(* Specification of the path builder                                       *)
(***************************************************************************)

\* the call of extractFilePathFromUrl on url; uploadPath is the key the URL
\* was made from and suffix what was written after it, both Undefined for a
\* URL that comes from elsewhere
CallingExtract(url, uploadPath, suffix) ==
  Calling("extractFilePathFromUrl",
          [url |-> url, hostUrl |-> hostUrl, bucket |-> config.bucket,
           uploadPath |-> uploadPath, suffix |-> suffix])

InitPath ==
  /\ UtilityInit
  /\ call \in {Calling("buildUploadPath", a) : a \in BuildInputs}
              \cup {CallingExtract(u, Undefined, Undefined) : u \in ExtractInputs(hostUrl)}
              \cup {CallingExtract(hostUrl \o config.bucket \o "/" \o k \o x, k, x) :
                      k \in SuffixedKeys, x \in UrlSuffixes}

\* buildUploadPath(file, folder) runs
BuildUploadPath ==
  /\ call.fn = "buildUploadPath" /\ ~call.done
  /\ call' = [call EXCEPT !.done = TRUE,
                          !.returned = buildUploadPath(call.args.file, call.args.folder)]
  /\ UNCHANGED <<env, probe, config, hostUrl, files, ops>>

\* createFileUrl makes the URL of the key that buildUploadPath returned, and
\* extractFilePathFromUrl is called on it
CreateFileUrl ==
  /\ call.fn = "buildUploadPath" /\ call.done /\ call.returned.ok
  /\ call' = CallingExtract(createFileUrl(call.returned.val, hostUrl, config.bucket),
                            call.returned.val, "")
  /\ UNCHANGED <<env, probe, config, hostUrl, files, ops>>

\* extractFilePathFromUrl(url, hostUrl, bucket) runs
ExtractFilePath ==
  /\ call.fn = "extractFilePathFromUrl" /\ ~call.done
  /\ call' = [call EXCEPT !.done = TRUE,
                          !.returned = extractFilePathFromUrl(call.args.url, call.args.hostUrl,
                                                              call.args.bucket)]
  /\ UNCHANGED <<env, probe, config, hostUrl, files, ops>>

NextPath == BuildUploadPath \/ CreateFileUrl \/ ExtractFilePath

SpecPath == InitPath /\ [][NextPath]_vars

(***************************************************************************)
(* Specification of the URL builder                                        *)
(***************************************************************************)

\* fileUrl arguments of isFileFromSameBucket and pathnameContainsBucket
FileUrlInputs ==
  { Undefined, "", "not-a-valid-url", "/bkt/f.jpg", "http://", "http://bad host/bkt/f.jpg",
    "http://localhost:9000/bkt/uploads/file.jpg", "http://localhost:9000/bkt",
    "http://localhost:9000/bkt/", "http://localhost:9000/other/uploads/file.jpg",
    "http://localhost:9000/other/bkt/file.jpg", "http://localhost:9000/bktx/file.jpg",
    "http://localhost:9000/", "http://localhost:9000/bkt/../other/f.jpg",
    "http://otherhost:9000/bkt/uploads/file.jpg", "http://otherhost:9000/other/file.jpg",
    "https://minio.example.com/bkt/f.jpg?X-Amz-Expires=60",
    "https://minio.example.com/other/f.jpg", "http://minio:9000/bkt/f.jpg",
    "http://old.example.com/bkt/f.jpg", "http://10.0.0.1:9000/bkt/f.jpg",
    "http://host/bkt/f.jpg", "http://s3/other/f.jpg" }

EndPointArgs == {"localhost", "minio.example.com", "minio", "s3.io"}

BucketArgs == {"bkt", "other"}

\* the endPoint, port and useSSL of the configurations handed to buildHostUrl
HostConfigs ==
  { [endPoint |-> e, port |-> p, useSSL |-> t] :
      e \in {"localhost", "minio.example.com", "10.0.0.1"},
      p \in {1, 80, 443, 8080, 9000, 65535}, t \in BOOLEAN }

InitUrl ==
  /\ UtilityInit
  /\ call \in {Calling("isFileFromSameBucket", [fileUrl |-> u, endPoint |-> e, bucket |-> b]) :
                  u \in FileUrlInputs, e \in EndPointArgs, b \in BucketArgs}
              \cup {Calling("pathnameContainsBucket", [fileUrl |-> u, bucket |-> b]) :
                      u \in FileUrlInputs, b \in BucketArgs}
              \cup {Calling("buildHostUrl", c) : c \in HostConfigs}

\* isFileFromSameBucket(fileUrl, endPoint, bucket) runs
IsFileFromSameBucket ==
  /\ call.fn = "isFileFromSameBucket" /\ ~call.done
  /\ call' = [call EXCEPT !.done = TRUE,
                          !.returned = Ok(isFileFromSameBucket(call.args.fileUrl,
                                                               call.args.endPoint,
                                                               call.args.bucket))]
  /\ UNCHANGED <<env, probe, config, hostUrl, files, ops>>

\* pathnameContainsBucket(fileUrl, bucket) runs
PathnameContainsBucket ==
  /\ call.fn = "pathnameContainsBucket" /\ ~call.done
  /\ call' = [call EXCEPT !.done = TRUE,
                          !.returned = Ok(pathnameContainsBucket(call.args.fileUrl,
                                                                 call.args.bucket))]
  /\ UNCHANGED <<env, probe, config, hostUrl, files, ops>>

\* buildHostUrl(config) runs
BuildHostUrl ==
  /\ call.fn = "buildHostUrl" /\ ~call.done
  /\ call' = [call EXCEPT !.done = TRUE, !.returned = Ok(buildHostUrl(call.args))]
  /\ UNCHANGED <<env, probe, config, hostUrl, files, ops>>

NextUrl == IsFileFromSameBucket \/ PathnameContainsBucket \/ BuildHostUrl

SpecUrl == InitUrl /\ [][NextUrl]_vars

(***************************************************************************)
(* Properties                                                              *)
(***************************************************************************)

\* the call of kind k on descriptor f has started (and may have settled)
Started(f, k) == ops[f].kind = k /\ ops[f].pc # "idle"

\* the call of kind k on descriptor f has settled
Done(f, k) == ops[f].kind = k /\ ops[f].pc = "done"

\* the pathname of url lies under "/<configured bucket>/"
UnderBucket(url) ==
  /\ Truthy(url)
  /\ ParseURL(url).ok
  /\ StartsWith(ParseURL(url).pathname, "/" \o config.bucket \o "/")

\* the part of the pathname of url after "/<configured bucket>/"
KeyInPathname(url) == Substring(ParseURL(url).pathname, Len(config.bucket) + 2)

\* url is accepted by isFileFromSameBucket or by pathnameContainsBucket
BelongsToBucket(url) ==
  \/ isFileFromSameBucket(url, config.endPoint, config.bucket)
  \/ pathnameContainsBucket(url, config.bucket)

\* a URL under the bucket on a host that is not the endpoint and contains a dot
LegacyDomainUrl(url) ==
  /\ UnderBucket(url)
  /\ ParseURL(url).hostname # config.endPoint
  /\ Includes(ParseURL(url).hostname, ".")

\* url carries a marker of a presigned URL among its query parameters
CarriesPresignMarker(url) ==
  Truthy(url) /\ (Includes(url, "X-Amz-Algorithm") \/ Includes(url, "signature="))

PresignCall(key, expiry) ==
  [op |-> "presignedGetObject", bucket |-> config.bucket, key |-> key, expiry |-> expiry]

\* C1: getSignedUrl(file), without options, on an unsigned URL under the
\* configured bucket whose host is another, valid-looking domain never rejects:
\* it calls presignedGetObject once and, when that call fails, resolves with
\* the original URL
C1_LegacyDomainUrlNeverRejects ==
  \A f \in DOMAIN files :
    (/\ Done(f, "getSignedUrl")
     /\ ops[f].expiresIn = NoNumber
     /\ LegacyDomainUrl(ops[f].before.url)
     /\ ~CarriesPresignMarker(ops[f].before.url))
    => /\ Len(ops[f].calls) = 1
       /\ ops[f].calls[1].op = "presignedGetObject"
       /\ ops[f].result.outcome = "resolved"
       /\ ops[f].clientError # Undefined => ops[f].result.value = ops[f].before.url

\* C2: when presignedGetObject rejects, a URL on the configured endpoint under
\* the bucket makes getSignedUrl reject with SignedUrlError; getSignedUrl
\* resolves (with the original URL) only for a URL that pathnameContainsBucket
\* accepts and isFileFromSameBucket does not
C2_PresignFailureRejectsUnlessLenientOnly ==
  \A f \in DOMAIN files :
    (Done(f, "getSignedUrl") /\ ops[f].clientError # Undefined)
    => LET url == ops[f].before.url
           r   == ops[f].result
       IN  /\ r.outcome \in {"resolved", "rejected"}
           /\ r.outcome = "rejected" => r.error = "SignedUrlError"
           /\ (UnderBucket(url) /\ ParseURL(url).hostname = config.endPoint)
              => r.outcome = "rejected"
           /\ r.outcome = "resolved"
              => /\ r.value = url
                 /\ pathnameContainsBucket(url, config.bucket)
                 /\ ~isFileFromSameBucket(url, config.endPoint, config.bucket)

\* C2 witness: presignedGetObject has rejected for a URL on the configured
\* endpoint and getSignedUrl has rejected with SignedUrlError
C2_Witness ==
  \E f \in DOMAIN files :
    /\ Done(f, "getSignedUrl") /\ ops[f].clientError # Undefined
    /\ UnderBucket(ops[f].before.url)
    /\ ParseURL(ops[f].before.url).hostname = config.endPoint
    /\ ops[f].result.error = "SignedUrlError"

\* the lenient-only case of C2 happens too: presignedGetObject has rejected
\* and getSignedUrl has resolved with the original URL
C2_LenientFallbackReached ==
  \E f \in DOMAIN files :
    /\ Done(f, "getSignedUrl") /\ ops[f].clientError # Undefined
    /\ ops[f].result = Resolved(ops[f].before.url)

\* C3: for a non-empty file.url that neither isFileFromSameBucket nor
\* pathnameContainsBucket accepts, getSignedUrl resolves with the URL
\* unchanged and calls presignedGetObject never
C3_ForeignUrlReturnedUnchanged ==
  \A f \in DOMAIN files :
    (/\ Started(f, "getSignedUrl")
     /\ Truthy(ops[f].before.url)
     /\ ~BelongsToBucket(ops[f].before.url))
    => /\ ops[f].pc = "done"
       /\ ops[f].result = Resolved(ops[f].before.url)
       /\ ops[f].calls = <<>>

\* C3 witness: getSignedUrl has settled for an unparseable URL that mentions
\* the bucket and that neither test accepts
C3_Witness ==
  \E f \in DOMAIN files :
    /\ Done(f, "getSignedUrl")
    /\ Truthy(ops[f].before.url)
    /\ ~ParseURL(ops[f].before.url).ok
    /\ Includes(ops[f].before.url, "/" \o config.bucket \o "/")
    /\ ~BelongsToBucket(ops[f].before.url)

\* C4: for a URL of the bucket that carries a presigned-URL marker,
\* getSignedUrl without expiresIn resolves with the URL unchanged and calls
\* presignedGetObject never; with any expiresIn given it calls
\* presignedGetObject with the key without the query string and that expiry
C4_SignedUrlResignedWithGivenExpiry ==
  \A f \in DOMAIN files :
    (/\ Started(f, "getSignedUrl")
     /\ BelongsToBucket(ops[f].before.url)
     /\ CarriesPresignMarker(ops[f].before.url))
    => /\ ops[f].expiresIn = NoNumber
          => /\ ops[f].pc = "done"
             /\ ops[f].result = Resolved(ops[f].before.url)
             /\ ops[f].calls = <<>>
       /\ ops[f].expiresIn # NoNumber
          => ops[f].calls = <<PresignCall(KeyInPathname(ops[f].before.url),
                                          ops[f].expiresIn)>>

\* C4 amended: for a URL of the bucket that carries a presigned-URL marker,
\* getSignedUrl without expiresIn resolves with the URL unchanged and calls
\* presignedGetObject never; with an expiresIn that is a positive integer it
\* calls presignedGetObject with the key without the query string and that
\* expiry
C4_SignedUrlKeptOrResigned ==
  \A f \in DOMAIN files :
    (/\ Started(f, "getSignedUrl")
     /\ BelongsToBucket(ops[f].before.url)
     /\ CarriesPresignMarker(ops[f].before.url))
    => LET url == ops[f].before.url
       IN  /\ ops[f].expiresIn = NoNumber
              => /\ ops[f].pc = "done"
                 /\ ops[f].result = Resolved(url)
                 /\ ops[f].calls = <<>>
           /\ (ops[f].expiresIn # NoNumber /\ expiryIsValid(ops[f].expiresIn))
              => /\ ops[f].calls = <<PresignCall(KeyInPathname(url), ops[f].expiresIn)>>
                 /\ ~Includes(ops[f].calls[1].key, "?")

\* C4 witness: getSignedUrl with expiresIn 1800 has called presignedGetObject
\* for a URL that carries a presigned-URL marker
C4_Witness ==
  \E f \in DOMAIN files :
    /\ Started(f, "getSignedUrl")
    /\ BelongsToBucket(ops[f].before.url)
    /\ CarriesPresignMarker(ops[f].before.url)
    /\ ops[f].expiresIn = Num(1800)
    /\ Len(ops[f].calls) = 1

\* the other case of C4 happens too: a presigned URL returned unchanged
C4_UnchangedReached ==
  \E f \in DOMAIN files :
    /\ Done(f, "getSignedUrl")
    /\ BelongsToBucket(ops[f].before.url)
    /\ CarriesPresignMarker(ops[f].before.url)
    /\ ops[f].expiresIn = NoNumber

\* C5: for a URL of the bucket, presignedGetObject gets the requested
\* expiresIn when one is given and the configured expiry otherwise, and every
\* requested expiresIn that is not a positive integer makes getSignedUrl
\* reject with SignedUrlError without a presignedGetObject call
C5_ExpiryRequestedOrDefaultElseRejected ==
  \A f \in DOMAIN files :
    (Started(f, "getSignedUrl") /\ BelongsToBucket(ops[f].before.url))
    => /\ ops[f].calls # <<>>
          => ops[f].calls[1].expiry =
               IF ops[f].expiresIn # NoNumber THEN ops[f].expiresIn ELSE config.expiry
       /\ (ops[f].expiresIn # NoNumber /\ ~expiryIsValid(ops[f].expiresIn))
          => /\ ops[f].pc = "done"
             /\ ops[f].result.outcome = "rejected"
             /\ ops[f].result.error = "SignedUrlError"
             /\ ops[f].calls = <<>>

\* exactly one of file.buffer and file.stream is present
ExactlyOneContent(file) == (file.buffer # Undefined) # (file.stream # Undefined)

PutCalls(f) == SelectSeq(ops[f].calls, LAMBDA c : c.op = "putObject")

\* C6: a successful upload has called putObject exactly once, with the
\* configured bucket, the key buildUploadPath(file, config.folder) and the
\* content of the file, and file.url is the host URL, the bucket, '/' and that
\* key; file.url is not assigned before putObject has resolved
C6_UploadPutsBuiltPath ==
  \A f \in DOMAIN files :
    Started(f, "upload")
    => LET file == ops[f].before
           key  == buildUploadPath(file, config.folder).val
       IN  /\ ops[f].pc \in {"credtest", "put"} => files[f].url = file.url
           /\ (ops[f].pc = "done" /\ ops[f].result.outcome = "resolved")
              => /\ Len(PutCalls(f)) = 1
                 /\ PutCalls(f)[1].bucket = config.bucket
                 /\ PutCalls(f)[1].key = key
                 /\ PutCalls(f)[1].content \in {file.buffer, file.stream}
                 /\ PutCalls(f)[1].content # Undefined
                 /\ files[f].url = buildHostUrl(config) \o config.bucket \o "/" \o key

\* buildUploadPath's result without its trailing '/', if it has one
KeyWithoutTrailingSlash(file) ==
  LET p == buildUploadPath(file, config.folder).val
  IN  IF EndsWith(p, "/") THEN SubSeq(p, 1, Len(p) - 1) ELSE p

\* C6 amended: as C6, with the key being buildUploadPath(file, config.folder)
\* without its trailing '/' when it has one
C6_UploadPutsNormalizedPath ==
  \A f \in DOMAIN files :
    Started(f, "upload")
    => LET file == ops[f].before
           key  == KeyWithoutTrailingSlash(file)
       IN  /\ ops[f].pc \in {"credtest", "put", "closing"} => files[f].url = file.url
           /\ (ops[f].pc = "done" /\ ops[f].result.outcome = "resolved")
              => /\ Len(PutCalls(f)) = 1
                 /\ PutCalls(f)[1].bucket = config.bucket
                 /\ PutCalls(f)[1].key = key
                 /\ PutCalls(f)[1].content \in {file.buffer, file.stream}
                 /\ PutCalls(f)[1].content # Undefined
                 /\ files[f].url = buildHostUrl(config) \o config.bucket \o "/" \o key

\* C6 witness: an upload has succeeded for a descriptor whose built path ends
\* with '/'
C6_Witness ==
  \E f \in DOMAIN files :
    /\ Done(f, "upload") /\ ops[f].result.outcome = "resolved"
    /\ EndsWith(buildUploadPath(ops[f].before, config.folder).val, "/")

\* C7: after a successful upload the descriptor carries provider metadata
\* (key, bucket, etag) besides its url
C7_UploadRecordsProviderMetadata ==
  \A f \in DOMAIN files :
    (Done(f, "upload") /\ ops[f].result.outcome = "resolved")
    => /\ files[f].url # Undefined
       /\ files[f].provider_metadata # Undefined

\* C8: upload of a descriptor that carries neither or both of buffer and
\* stream rejects with UploadError and calls putObject never
C8_UploadNeedsExactlyOneContent ==
  \A f \in DOMAIN files :
    (Started(f, "upload") /\ ~ExactlyOneContent(ops[f].before))
    => /\ ops[f].pc = "done"
       /\ ops[f].result.outcome = "rejected"
       /\ ops[f].result.error = "UploadError"
       /\ PutCalls(f) = <<>>

\* C9: an upload that fails rejects with an UploadError whose context carries
\* the file name, the size, the bucket and the endpoint, and leaves file.url
\* as it was before the call
C9_UploadFailsWithUploadError ==
  \A f \in DOMAIN files :
    (Done(f, "upload") /\ ops[f].result.outcome # "resolved")
    => /\ ops[f].result.outcome = "rejected"
       /\ ops[f].result.error = "UploadError"
       /\ ops[f].result.context.fileName = ops[f].before.name
       /\ ops[f].result.context.fileSize = ops[f].before.size
       /\ ops[f].result.context.bucket = config.bucket
       /\ ops[f].result.context.endpoint = config.endPoint
       /\ files[f].url = ops[f].before.url

\* C9 witness: putObject has rejected for a descriptor that had a url
C9_Witness ==
  \E f \in DOMAIN files :
    /\ Done(f, "upload") /\ ops[f].clientError # Undefined
    /\ ops[f].result.error = "UploadError"
    /\ Truthy(ops[f].before.url)

\* the other failures of C9 happen too: path construction and missing content
C9_SyncFailuresReached ==
  \E f \in DOMAIN files :
    /\ Done(f, "upload") /\ ops[f].result.outcome = "rejected"
    /\ ops[f].calls = <<>>
    /\ buildUploadPath(ops[f].before, config.folder).ok

C10_UnrecoverableReached ==
  \E f \in DOMAIN files :
    /\ Done(f, "delete")
    /\ Truthy(ops[f].before.url)
    /\ ~extractFilePathFromUrl(ops[f].before.url, hostUrl, config.bucket).ok

(***************************************************************************)
(* Properties of the configuration validator                               *)
(***************************************************************************)

\* validateAndNormalizeConfig has run on the options call.args
Validated == call.fn = "validateAndNormalizeConfig" /\ call.done

\* the call threw an exception of class e
Threw(e) == ~call.returned.ok /\ call.returned.err = e

\* a value that is missing, not a string, or empty after trimming
Unusable(v) == v.t # "string" \/ Trim(v.s) = ""

\* a required field of the options is unusable, or the trimmed endpoint or
\* bucket fails its format rule
RequiredInvalid(options) ==
  \/ Unusable(endPointValue(options))
  \/ Unusable(options.accessKey)
  \/ Unusable(options.secretKey)
  \/ Unusable(options.bucket)
  \/ ~isValidHostname(Trim(endPointValue(options).s))
  \/ ~isValidBucketName(Trim(options.bucket.s))

\* C11: validateAndNormalizeConfig throws ConfigurationError whenever the
\* endpoint, accessKey, secretKey or bucket is missing, not a string or empty
\* after trimming, or the trimmed endpoint or bucket fails its format rule,
\* whatever the optional fields are
C11_InvalidRequiredFieldThrowsConfigurationError ==
  Validated /\ RequiredInvalid(call.args) => Threw("ConfigurationError")

\* the same restricted to options whose folder is absent or a string
C11_WithStringFolder ==
  Validated /\ RequiredInvalid(call.args) /\ call.args.folder.t \in {"undefined", "string"}
    => Threw("ConfigurationError")

\* the integer a supplied port denotes (a number, or a numeric string), 0 when
\* it denotes none
PortValue(v) ==
  IF v.t = "number" THEN (IF v.s = "" /\ v.n[2] = 0 THEN v.n[1] ELSE 0)
  ELSE IF v.t = "string" /\ Trim(v.s) # ""
       THEN (IF NumberOf(Trim(v.s)).s = "" /\ NumberOf(Trim(v.s)).n[2] = 0
             THEN NumberOf(Trim(v.s)).n[1] ELSE 0)
  ELSE 0

\* the port the options ask for: the supplied one when it is an integer of
\* 1..65535, else 443 under TLS and 9000 without; 9000 under TLS becomes 443
ExpectedPort(options) ==
  IF PortValue(options.port) \in 1..65535
  THEN (IF parseBoolean(options.useSSL) /\ PortValue(options.port) = 9000 THEN 443
        ELSE PortValue(options.port))
  ELSE IF parseBoolean(options.useSSL) THEN 443 ELSE 9000

C12_KeptReached ==
  /\ Validated /\ call.returned.ok
  /\ call.args.port = JsString("443") /\ call.args.useSSL = JsUndefined
  /\ call.returned.val.port = 443

\* an unusable port was supplied and the default came back
C12_DefaultReached ==
  /\ Validated /\ call.returned.ok
  /\ call.args.port \in {JsNumber(Num(65536)), JsNumber(<<1, 1>>), JsString("not-a-number"), JsNaN}
  /\ call.returned.val.port = 9000

\* the optional boolean fields and the optional numeric fields with their defaults
BooleanDefaults ==
  [useSSL |-> FALSE, private |-> FALSE, debug |-> FALSE, rejectUnauthorized |-> TRUE,
   keepAlive |-> FALSE]

NumberDefaults ==
  [connectTimeout |-> 60000, maxRetries |-> 3, retryDelay |-> 1000]

\* a value that is not a boolean and does not spell one
UnparsableBoolean(v) ==
  ~(v.t = "boolean" \/ (v.t = "string" /\ toLowerCase(v.s) \in {"true", "false"}))

\* a value that parses to no number, or to one outside the range of the field
UnusableNumber(field, v) ==
  \/ parseNumber(v).t # "number"
  \/ parseNumber(v).s = "NaN"
  \/ field = "expiry" /\ ~IsIntegerFrom(parseNumber(v), 1)
  \/ field = "connectTimeout" /\ ~GreaterThanZero(parseNumber(v))
  \/ field \in {"maxRetries", "retryDelay"} /\ ~AtLeastZero(parseNumber(v))

\* the options have usable required fields and a folder that can be trimmed
RequiredValid(options) ==
  ~RequiredInvalid(options) /\ options.folder.t \in {"undefined", "string"}

\* C13: an optional boolean or numeric field that cannot be parsed or is out
\* of range never makes validateAndNormalizeConfig throw and comes back as
\* the default of the field (rejectUnauthorized true, the other booleans
\* false, expiry 604800, connectTimeout 60000, maxRetries 3, retryDelay 1000);
\* the returned expiry is always a positive integer
C13_UnparsableOptionYieldsDefault ==
  Validated /\ RequiredValid(call.args) =>
    /\ call.returned.ok
    /\ \A f \in DOMAIN BooleanDefaults :
         UnparsableBoolean(call.args[f]) => call.returned.val[f] = BooleanDefaults[f]
    /\ \A f \in DOMAIN NumberDefaults :
         UnusableNumber(f, call.args[f]) => call.returned.val[f] = JsNumber(Num(NumberDefaults[f]))
    /\ UnusableNumber("expiry", call.args.expiry) => call.returned.val.expiry = Num(604800)
    /\ NumIsInteger(call.returned.val.expiry) /\ call.returned.val.expiry[1] > 0

\* the same without rejectUnauthorized among the boolean fields
C13_ExceptRejectUnauthorized ==
  Validated /\ RequiredValid(call.args) =>
    /\ call.returned.ok
    /\ \A f \in DOMAIN BooleanDefaults \ {"rejectUnauthorized"} :
         UnparsableBoolean(call.args[f]) => call.returned.val[f] = BooleanDefaults[f]
    /\ \A f \in DOMAIN NumberDefaults :
         UnusableNumber(f, call.args[f]) => call.returned.val[f] = JsNumber(Num(NumberDefaults[f]))
    /\ UnusableNumber("expiry", call.args.expiry) => call.returned.val.expiry = Num(604800)
    /\ NumIsInteger(call.returned.val.expiry) /\ call.returned.val.expiry[1] > 0

\* b matches ^[a-z0-9][a-z0-9.-]{1,61}[a-z0-9]$
MatchesBucketPattern(b) ==
  /\ Len(b) - 2 \in 1..61
  /\ SubSeq(b, 1, 1) \in LowerAlnum
  /\ AllIn(SubSeq(b, 2, Len(b) - 1), LowerAlnum \cup {".", "-"})
  /\ SubSeq(b, Len(b), Len(b)) \in LowerAlnum

\* b is four decimal numbers of 0..255, of one to three digits, between dots
IsDottedQuad(b) ==
  /\ Len(SplitOn(b, {"."})) = 4
  /\ \A i \in 1..4 : /\ Len(SplitOn(b, {"."})[i]) \in 1..3
                     /\ IsDigits(SplitOn(b, {"."})[i])
                     /\ DigitsValue(SplitOn(b, {"."})[i]) <= 255

BucketAcceptable(b) == MatchesBucketPattern(b) /\ ~Includes(b, "..") /\ ~IsDottedQuad(b)

\* every required field but the bucket is usable, and the folder can be trimmed
ValidButBucket(options) ==
  /\ ~Unusable(endPointValue(options)) /\ isValidHostname(Trim(endPointValue(options).s))
  /\ ~Unusable(options.accessKey) /\ ~Unusable(options.secretKey)
  /\ options.folder.t \in {"undefined", "string"}

\* C14: validateAndNormalizeConfig accepts a trimmed bucket exactly when it
\* matches ^[a-z0-9][a-z0-9.-]{1,61}[a-z0-9]$, contains no ".." and is not a
\* dotted-quad IPv4 literal; every other bucket string gives ConfigurationError
C14_BucketAcceptedIffWellFormed ==
  Validated /\ ValidButBucket(call.args) /\ call.args.bucket.t = "string" =>
    IF BucketAcceptable(Trim(call.args.bucket.s))
    THEN call.returned.ok /\ call.returned.val.bucket = Trim(call.args.bucket.s)
    ELSE Threw("ConfigurationError")

\* a bucket of three characters with a dot is accepted
C14_Witness ==
  Validated /\ call.args.bucket = JsString("a.c") /\ call.returned.ok
  /\ call.returned.val.bucket = "a.c"

\* buckets with "..", in IPv4 form or of 64 characters are rejected
C14_RejectedReached ==
  /\ Validated /\ ValidButBucket(call.args) /\ Threw("ConfigurationError")
  /\ call.args.bucket \in {JsString("invalid..bucket"), JsString("192.168.1.1"), JsString(A64)}

\* a and b, the texts around the single "::" of an address, are lists of
\* groups separated by single colons (an empty text is the empty list)
GroupList(text) ==
  text = "" \/ \A i \in 1..Len(SplitOn(text, {":"})) : IsHexGroup(SplitOn(text, {":"})[i])

GroupCount(text) == IF text = "" THEN 0 ELSE Len(SplitOn(text, {":"}))

\* a syntactically valid IPv6 address: groups of 1 to 4 hexadecimal digits
\* separated by single colons, 8 of them, or fewer around one "::"
IsIPv6Syntax(ip) ==
  IF ~Includes(ip, "::")
  THEN Len(SplitOn(ip, {":"})) = 8 /\ GroupList(ip)
  ELSE /\ Cardinality(Occurrences(ip, "::")) = 1
       /\ GroupList(SubstringTo(ip, 0, IndexOf(ip, "::")))
       /\ GroupList(Substring(ip, IndexOf(ip, "::") + 2))
       /\ GroupCount(SubstringTo(ip, 0, IndexOf(ip, "::")))
          + GroupCount(Substring(ip, IndexOf(ip, "::") + 2)) <= 7

\* a valid DNS hostname: labels of 1 to 63 letters, digits and inner hyphens,
\* at most 253 characters in all
IsDnsHostname(h) ==
  /\ Len(h) <= 253
  /\ \A i \in 1..Len(SplitOn(h, {"."})) : IsLabel(SplitOn(h, {"."})[i])

EndPointAcceptable(e) ==
  e = "localhost" \/ IsDottedQuad(e) \/ IsIPv6Syntax(e) \/ IsDnsHostname(e)

\* every required field but the endpoint is usable, and the folder can be trimmed
ValidButEndPoint(options) ==
  /\ ~Unusable(options.bucket) /\ isValidBucketName(Trim(options.bucket.s))
  /\ ~Unusable(options.accessKey) /\ ~Unusable(options.secretKey)
  /\ options.folder.t \in {"undefined", "string"}

\* C15: every configuration validateAndNormalizeConfig returns has an endPoint
\* that is "localhost", a valid IPv4 address, a valid IPv6 address (groups of
\* 1 to 4 hexadecimal digits, at most one "::", at most 8 groups) or a valid
\* DNS hostname; every other endpoint string gives ConfigurationError
C15_EndPointAcceptedIffWellFormed ==
  Validated =>
    /\ call.returned.ok => EndPointAcceptable(call.returned.val.endPoint)
    /\ ValidButEndPoint(call.args) /\ endPointValue(call.args).t = "string"
       /\ ~EndPointAcceptable(Trim(endPointValue(call.args).s))
         => Threw("ConfigurationError")

\* the same for the endpoints without ":" (no IPv6 address among them)
C15_ExceptIPv6 ==
  Validated /\ endPointValue(call.args).t = "string"
  /\ ~Includes(endPointValue(call.args).s, ":") =>
    /\ call.returned.ok => EndPointAcceptable(call.returned.val.endPoint)
    /\ ValidButEndPoint(call.args) /\ ~EndPointAcceptable(Trim(endPointValue(call.args).s))
         => Threw("ConfigurationError")

(***************************************************************************)
(* Properties of the path builder                                          *)
(***************************************************************************)

\* buildUploadPath has run on call.args
Built == call.fn = "buildUploadPath" /\ call.done

\* buildUploadPath returned the key call.returned.val
BuiltKey == Built /\ call.returned.ok

\* C16: a key returned by buildUploadPath contains no "..", no "~", no
\* backslash and no control character, and does not begin with "/"
C16_KeyHasNoTraversal ==
  BuiltKey =>
    /\ ~Includes(call.returned.val, "..")
    /\ ~Includes(call.returned.val, "~")
    /\ ~Includes(call.returned.val, "\\")
    /\ PositionsIn(call.returned.val, ControlChars) = {}
    /\ ~StartsWith(call.returned.val, "/")

\* the same without the absence of ".."
C16_ExceptDotDot ==
  BuiltKey =>
    /\ ~Includes(call.returned.val, "~")
    /\ ~Includes(call.returned.val, "\\")
    /\ PositionsIn(call.returned.val, ControlChars) = {}
    /\ ~StartsWith(call.returned.val, "/")

\* s contains ".." or "~", or begins with "/" or a backslash
IsTraversal(s) ==
  s # Undefined /\ (Includes(s, "..") \/ Includes(s, "~") \/ StartsWith(s, "/")
                    \/ StartsWith(s, "\\"))

\* C17: buildUploadPath throws PathTraversalError, and returns no key, for
\* every folder or file.path that contains ".." or "~" or begins with "/" or
\* with a backslash
C17_TraversalInFolderOrPathThrows ==
  Built /\ (IsTraversal(call.args.folder) \/ IsTraversal(call.args.file.path))
    => Threw("PathTraversalError")

\* a folder with ".." and a file.path that begins with a backslash were refused
C17_Witness ==
  /\ Built /\ Threw("PathTraversalError")
  /\ call.args.folder = "a/../b" /\ call.args.file.path = "\\absolute"

\* the sanitization of a hash: trim, then removal of the control characters
SanitizedHash(hash) == StripControl(Trim(hash))

\* the sanitization of an extension: the same after the removal of a leading dot
SanitizedExt(ext) == StripControl(Trim(IF StartsWith(ext, ".") THEN Tail(ext) ELSE ext))

\* v is missing, not a string, or empty once sanitized by Sanitize
EmptyPart(v, Sanitize(_)) == v \in {Undefined, "", NonString} \/ Sanitize(v) = ""

\* C18: buildUploadPath throws PathTraversalError whenever file.hash or
\* file.ext is missing, not a string or empty after sanitization, and never
\* returns a key made from an empty hash part or an empty extension part
C18_EmptyHashOrExtThrows ==
  /\ Built /\ (EmptyPart(call.args.file.hash, SanitizedHash)
               \/ EmptyPart(call.args.file.ext, SanitizedExt))
       => Threw("PathTraversalError")
  /\ BuiltKey => /\ SanitizedHash(call.args.file.hash) # ""
                 /\ SanitizedExt(call.args.file.ext) # ""

\* the same with a hash that may be empty after sanitization
C18_EmptyExtThrows ==
  /\ Built /\ (call.args.file.hash \in {Undefined, "", NonString}
               \/ EmptyPart(call.args.file.ext, SanitizedExt))
       => Threw("PathTraversalError")
  /\ BuiltKey => SanitizedExt(call.args.file.ext) # ""

\* extractFilePathFromUrl has run on the URL createFileUrl made from a key
\* that buildUploadPath returned
RoundTrip ==
  /\ call.fn = "extractFilePathFromUrl" /\ call.done
  /\ call.args.uploadPath # Undefined /\ call.args.suffix = ""

\* C19: extractFilePathFromUrl(createFileUrl(key, hostUrl, bucket), hostUrl,
\* bucket) returns exactly key, for every key that buildUploadPath returns
C19_ExtractInvertsCreateFileUrl ==
  RoundTrip => call.returned.ok /\ call.returned.val = call.args.uploadPath

\* a key that reads the same as text, as percent-encoded text and as a URL path
PlainKey(key) ==
  /\ PositionsIn(key, {" ", "%", "?", "#"}) = {}
  /\ \A i \in 1..Len(SplitOn(key, {"/"})) : SplitOn(key, {"/"})[i] \notin {".", ".."}

\* the same for the keys without space, '%', '?', '#' and dot segments
C19_PlainKeysRoundTrip ==
  RoundTrip /\ PlainKey(call.args.uploadPath) =>
    call.returned.ok /\ call.returned.val = call.args.uploadPath

\* extractFilePathFromUrl has run on call.args.url
Extracted == call.fn = "extractFilePathFromUrl" /\ call.done

\* the URL as decoded, without its query string and fragment
StrippedUrl(url) == UpTo(UpTo(decodeURIComponent(url).val, "?"), "#")

\* the path segments of a parseable URL
PathSegments(u) == SplitOn(Substring(ParseURL(u).pathname, 1), {"/"})

\* the three shapes of a URL u that holds a key of the bucket b under the host URL h
HasHostPrefix(u, h, b) == StartsWith(u, h \o b \o "/")

IsBucketRoot(u, b) == ParseURL(u).ok /\ ParseURL(u).pathname = "/" \o b

HasBucketSegment(u, b) == ParseURL(u).ok /\ PathSegments(u)[1] = b

\* the keys the shapes that apply to u yield
ShapeKeys(u, h, b) ==
  (IF HasHostPrefix(u, h, b) THEN {Substring(u, Len(h \o b \o "/"))} ELSE {})
  \cup (IF IsBucketRoot(u, b) THEN {""} ELSE {})
  \cup (IF HasBucketSegment(u, b) THEN {Join(Tail(PathSegments(u)))} ELSE {})

\* C20: extractFilePathFromUrl returns a key only for a URL that (query string
\* and fragment stripped) starts with hostUrl + bucket + "/", or parses with
\* the pathname "/<bucket>", or parses with the bucket as first path segment;
\* it throws for every other URL, and the shapes that apply yield one key
C20_ExtractsOnlyFromKnownShapes ==
  Extracted /\ Truthy(call.args.url) /\ decodeURIComponent(call.args.url).ok =>
    /\ call.returned.ok =>
         ShapeKeys(StrippedUrl(call.args.url), call.args.hostUrl, call.args.bucket) # {}
    /\ Cardinality(ShapeKeys(StrippedUrl(call.args.url), call.args.hostUrl,
                             call.args.bucket)) <= 1
    /\ call.returned.ok =>
         call.returned.val \in ShapeKeys(StrippedUrl(call.args.url), call.args.hostUrl,
                                         call.args.bucket)

\* a key is returned only for a URL that has one of the shapes
C20_OnlyFromKnownShapes ==
  Extracted /\ call.returned.ok =>
    ShapeKeys(StrippedUrl(call.args.url), call.args.hostUrl, call.args.bucket) # {}

\* the shapes that apply yield one key
C20_ShapesAgree ==
  Extracted /\ Truthy(call.args.url) /\ decodeURIComponent(call.args.url).ok =>
    Cardinality(ShapeKeys(StrippedUrl(call.args.url), call.args.hostUrl,
                          call.args.bucket)) <= 1

\* a key is returned only for a URL that contains "/<bucket>/" or has the
\* pathname "/<bucket>", and no URL without them yields one
C20_OnlyWithBucketInUrl ==
  Extracted /\ call.returned.ok =>
    \/ Includes(StrippedUrl(call.args.url), "/" \o call.args.bucket \o "/")
    \/ IsBucketRoot(StrippedUrl(call.args.url), call.args.bucket)

\* extractFilePathFromUrl has run on hostUrl + bucket + "/" + key followed by
\* a query string and/or a fragment
SuffixStripped ==
  /\ call.fn = "extractFilePathFromUrl" /\ call.done
  /\ call.args.suffix \notin {Undefined, ""}

\* C21: for every URL hostUrl + bucket + "/" + key followed by a query string
\* and/or a fragment, literal or percent-encoded, extractFilePathFromUrl
\* returns key; for an empty URL it throws its "File URL is required" Error
C21_QueryAndFragmentStripped ==
  /\ SuffixStripped => call.returned.ok /\ call.returned.val = call.args.uploadPath
  /\ Extracted /\ call.args.url = "" => ~call.returned.ok /\ call.returned.err = "Error"

\* the same for the suffixes that decodeURIComponent accepts
C21_DecodableSuffixStripped ==
  /\ SuffixStripped /\ decodeURIComponent(call.args.suffix).ok =>
       call.returned.ok /\ call.returned.val = call.args.uploadPath
  /\ Extracted /\ call.args.url = "" => ~call.returned.ok /\ call.returned.err = "Error"

\* a URL whose query string holds a '%' that starts no escape sequence makes
\* extractFilePathFromUrl throw the URIError of decodeURIComponent
C21_MalformedQueryThrows ==
  SuffixStripped /\ ~decodeURIComponent(call.args.suffix).ok =>
    ~call.returned.ok /\ call.returned.err = "URIError"

(***************************************************************************)
(* Properties of the URL builder                                           *)
(***************************************************************************)

\* isFileFromSameBucket has run
SameBucketChecked == call.fn = "isFileFromSameBucket" /\ call.done

\* the fileUrl argument is undefined, empty, or does not parse as a URL
Unparsable(fileUrl) == ~Truthy(fileUrl) \/ ~ParseURL(fileUrl).ok

\* none of the allowances for a URL of a legacy domain applies to hostname
NoLegacyHeuristic(hostname, endPoint) ==
  /\ ~Includes(hostname, endPoint) /\ ~Includes(endPoint, hostname)
  /\ ~Includes(hostname, ".") /\ hostname # "localhost"

\* C22: isFileFromSameBucket is true when the URL's hostname equals the
\* endpoint and its pathname starts with "/<bucket>/"; it is false when the
\* pathname is under a different bucket, and false when the hostname differs
\* from the endpoint and no legacy-domain heuristic is satisfied; for an
\* undefined or unparsable URL isFileFromSameBucket and pathnameContainsBucket
\* return false, and neither ever throws
C22_SameBucketByHostAndPathname ==
  /\ SameBucketChecked /\ ~Unparsable(call.args.fileUrl) =>
       /\ ParseURL(call.args.fileUrl).hostname = call.args.endPoint
          /\ StartsWith(ParseURL(call.args.fileUrl).pathname, "/" \o call.args.bucket \o "/")
          => call.returned.val = TRUE
       /\ PathSegments(call.args.fileUrl)[1] # call.args.bucket => call.returned.val = FALSE
       /\ ParseURL(call.args.fileUrl).hostname # call.args.endPoint
          /\ NoLegacyHeuristic(ParseURL(call.args.fileUrl).hostname, call.args.endPoint)
          => call.returned.val = FALSE
  /\ call.fn \in {"isFileFromSameBucket", "pathnameContainsBucket"} /\ call.done =>
       /\ call.returned.ok
       /\ Unparsable(call.args.fileUrl) => call.returned.val = FALSE

\* a URL under the bucket whose host differs from the endpoint, with no
\* heuristic satisfied, has been found not to be from the bucket
C22_Witness ==
  /\ SameBucketChecked /\ call.args.fileUrl = "http://otherhost:9000/bkt/uploads/file.jpg"
  /\ call.args.endPoint = "localhost" /\ call.args.bucket = "bkt"
  /\ call.returned.val = FALSE

\* a URL of the endpoint under the bucket has been found to be from the bucket
C22_SameHostReached ==
  /\ SameBucketChecked /\ call.args.fileUrl = "http://localhost:9000/bkt/uploads/file.jpg"
  /\ call.args.endPoint = "localhost" /\ call.args.bucket = "bkt"
  /\ call.returned.val = TRUE

\* the conventional port of the scheme
ConventionalPort(useSSL) == IF useSSL THEN 443 ELSE 80

\* C23: buildHostUrl(config) returns scheme + "://" + endPoint + [":" + port]
\* + "/", the scheme being "https" when useSSL and "http" otherwise, and the
\* port is omitted exactly when it is the conventional port of the scheme
C23_HostUrlOmitsConventionalPort ==
  call.fn = "buildHostUrl" /\ call.done =>
    /\ call.returned.ok
    /\ call.returned.val =
         (IF call.args.useSSL THEN "https" ELSE "http") \o "://" \o call.args.endPoint
         \o (IF call.args.port = ConventionalPort(call.args.useSSL) THEN ""
             ELSE ":" \o NumToString(call.args.port))
         \o "/"

\* port 80 has been written into the host URL of a TLS endpoint
C23_Witness ==
  /\ call.fn = "buildHostUrl" /\ call.done
  /\ call.args.useSSL /\ call.args.port = 80 /\ call.args.endPoint = "localhost"
  /\ call.returned.val = "https://localhost:80/"

\* port 443 has been omitted from the host URL of a TLS endpoint
C23_OmittedReached ==
  /\ call.fn = "buildHostUrl" /\ call.done
  /\ call.args.useSSL /\ call.args.port = 443 /\ call.args.endPoint = "localhost"
  /\ call.returned.val = "https://localhost/"

(***************************************************************************)
(* Properties of the bucket-existence check and of the stream              *)
(***************************************************************************)

\* the operation on f has issued the client call named op
Issued(f, op) == \E i \in 1..Len(ops[f].calls) : ops[f].calls[i].op = op

\* upload(file) has validated the file on f and has not settled
UploadInProgress(f) == ops[f].kind = "upload" /\ ops[f].pc \notin {"idle", "done"}

\* a failed bucketExists call makes no operation fail: an upload whose
\* credentials test failed resolves when its PUT does, and delete and
\* getSignedUrl call no bucketExists
FailedProbeFailsNothing ==
  \A f \in DOMAIN files :
    /\ Done(f, "upload") /\ ops[f].credTest = "failed" /\ ops[f].clientError = Undefined
       => ops[f].result.outcome = "resolved"
    /\ ops[f].kind \in {"delete", "getSignedUrl"} => ~Issued(f, "bucketExists")

\* C24: the bucket-existence probe is advisory: a probe that fails makes no
\* operation fail, and no operation waits for a probe: an upload in progress
\* has issued its PUT whether or not a bucketExists call has completed
C24_ProbeNeverFailsOrBlocks ==
  /\ FailedProbeFailsNothing
  /\ \A f \in DOMAIN files : UploadInProgress(f) => Issued(f, "putObject")

\* a probe that fails makes no operation fail
C24_FailedProbeFailsNothing == FailedProbeFailsNothing

\* a step of the check that the constructor scheduled changes no operation,
\* no descriptor and nothing of the configuration
C24_ConstructorProbeChangesNoOperation ==
  [][probe' # probe => ops' = ops /\ files' = files /\ config' = config
                       /\ hostUrl' = hostUrl]_vars

\* upload awaits its bucketExists call: the PUT is issued only after the call settled
C24_UploadPutsAfterCredentialsTest ==
  \A f \in DOMAIN files :
    ops[f].kind = "upload" /\ Issued(f, "putObject") => ops[f].credTest # "none"

\* an upload is waiting for its bucketExists call and has issued no PUT
C24_UploadWaitsReached ==
  \E f \in DOMAIN files :
    UploadInProgress(f) /\ Issued(f, "bucketExists") /\ ~Issued(f, "putObject")

\* upload(file) was given a readable stream on f, attempted its PUT and settled
SettledAfterPut(f) ==
  Done(f, "upload") /\ ops[f].content = Strm /\ Issued(f, "putObject")

\* C25: when upload(file) is given a readable stream, by the time upload
\* settles after attempting the PUT the stream has ended or been destroyed
C25_StreamClosedWhenUploadSettles ==
  \A f \in DOMAIN files :
    SettledAfterPut(f) => ops[f].stream.readableEnded \/ ops[f].stream.destroyed

\* the same for the uploads whose PUT succeeded and whose stream emitted no
\* 'error' event while ensureStreamClosed waited for it
C25_StreamClosedAfterSuccessfulPut ==
  \A f \in DOMAIN files :
    SettledAfterPut(f) /\ ops[f].clientError = Undefined /\ ops[f].closer.event # "error"
    => ops[f].stream.readableEnded \/ ops[f].stream.destroyed

\* an upload whose PUT was rejected settles without ensureStreamClosed having run
C25_RejectedPutLeavesStreamAlone ==
  \A f \in DOMAIN files :
    SettledAfterPut(f) /\ ops[f].clientError # Undefined => ops[f].closer = NoCloser

\* an upload has settled with its stream neither ended nor destroyed
C25_OpenStreamReached ==
  \E f \in DOMAIN files :
    SettledAfterPut(f) /\ ops[f].clientError # Undefined /\ ops[f].stream = LiveStream

(***************************************************************************)
(* Properties of the descriptors and of isPrivate                          *)
(***************************************************************************)

\* the descriptor f as the call in progress or last settled on it received
\* it, but for the fields url and provider_metadata
SameButUrl(f) ==
  [files[f] EXCEPT !.url = ops[f].before.url,
                   !.provider_metadata = ops[f].before.provider_metadata] = ops[f].before

\* C26: upload changes nothing in a descriptor other than url and the
\* provider metadata; delete and getSignedUrl leave every field of the
\* descriptor unchanged, url included, while they run and after they resolved
\* or rejected; isPrivate() never fails, returns the configured private flag
\* after any sequence of operations, and changes nothing
C26_OnlyUploadWritesUrl ==
  /\ [](\A f \in DOMAIN files :
          /\ Started(f, "upload") => SameButUrl(f)
          /\ Started(f, "delete") \/ Started(f, "getSignedUrl") => files[f] = ops[f].before)
  /\ [](call.fn = "isPrivate" => call.returned = Ok(config.private))
  /\ [][call' # call => files' = files /\ ops' = ops /\ config' = config
                        /\ hostUrl' = hostUrl /\ probe' = probe]_vars

\* isPrivate() has returned true after a delete that was rejected and left
\* its descriptor as it was
C26_Witness ==
  /\ call.fn = "isPrivate" /\ call.returned.val = TRUE
  /\ \E f \in DOMAIN files :
       /\ Done(f, "delete") /\ ops[f].result.outcome = "rejected"
       /\ ops[f].clientError # Undefined /\ files[f] = ops[f].before

\* upload has written the url of a descriptor, and nothing else
C26_UrlWrittenReached ==
  \E f \in DOMAIN files :
    Done(f, "upload") /\ files[f].url # ops[f].before.url /\ SameButUrl(f)

(***************************************************************************)
(* Properties of concurrent calls                                          *)
(***************************************************************************)

\* the object name upload passes to putObject for the descriptor d
OwnKey(d) == normalizeUploadPath(buildUploadPath(d, config.folder).val)

\* the upload that settled on f after its PUT issued the requests, produced
\* the result and wrote the url that follow from its own descriptor and from
\* the answer of the client
UploadAsAlone(f, d) ==
  Done(f, "upload") /\ Issued(f, "putObject") =>
    /\ ops[f].calls = << [op |-> "bucketExists", bucket |-> config.bucket],
                         putObjectCall(config, OwnKey(d), getFileContent(d).val, d) >>
    /\ IF ops[f].clientError = Undefined
       THEN /\ ops[f].result = Resolved(Undefined)
            /\ files[f] = [d EXCEPT !.url = createFileUrl(OwnKey(d), hostUrl, config.bucket)]
       ELSE /\ ops[f].result = uploadCatch(d, config, ops[f].clientError)
            /\ files[f] = d

\* the same for the delete that settled on f, k being the key it extracted
DeleteAsAlone(f, d, k) ==
  Done(f, "delete") =>
    /\ files[f] = d
    /\ IF ~k.ok THEN ops[f].calls = <<>> /\ ops[f].result.outcome = "rejected"
       ELSE /\ ops[f].calls = << [op |-> "removeObject", bucket |-> config.bucket,
                                  key |-> k.val] >>
            /\ ops[f].result = IF ops[f].clientError = Undefined THEN Resolved(Undefined)
                               ELSE deleteCatch(d, config, ops[f].clientError)

\* the same for the getSignedUrl that settled on f, s being its synchronous part
SignAsAlone(f, d, s) ==
  Done(f, "getSignedUrl") =>
    /\ files[f] = d
    /\ IF s.step = "settle" THEN ops[f].calls = <<>> /\ ops[f].result = s.result
       ELSE /\ ops[f].calls = << PresignCall(s.key, s.expiry) >>
            /\ ops[f].result =
                 IF ops[f].clientError = Undefined THEN Resolved(PresignedUrl(s.key))
                 ELSE signCatch(d, config, ops[f].expiresIn, s.same, s.has,
                                ops[f].clientError)

\* C27: for any interleaving of upload, delete and getSignedUrl calls on
\* different descriptors, each call issues the client requests and produces
\* the result and the descriptor mutation that follow from its own descriptor
\* and the client's answer, as when it runs alone; a step of one call changes
\* nothing of the other descriptor or its call; and no operation modifies the
\* configuration or the host URL, which keep the values set at construction
C27_ConcurrentCallsAreIndependent ==
  /\ [](\A f \in DOMAIN files :
          /\ UploadAsAlone(f, ops[f].before)
          /\ DeleteAsAlone(f, ops[f].before, deleteStart(ops[f].before, hostUrl, config))
          /\ SignAsAlone(f, ops[f].before,
                         getSignedUrlStart(ops[f].before, ops[f].expiresIn, config, hostUrl)))
  /\ [](hostUrl = buildHostUrl(config))
  /\ [][/\ config' = config /\ hostUrl' = hostUrl
        /\ \A f \in DOMAIN files :
             ops'[f] # ops[f] \/ files'[f] # files[f] =>
               \A g \in DOMAIN files \ {f} : ops'[g] = ops[g] /\ files'[g] = files[g]]_vars

\* an upload settled on f1 and wrote its url while a delete was in flight on
\* f2, and both descriptors differ
C27_Witness ==
  /\ Done("f1", "upload") /\ ops["f1"].result.outcome = "resolved"
  /\ ops["f1"].closer.resolves = 1
  /\ files["f1"].url = createFileUrl(OwnKey(ops["f1"].before), hostUrl, config.bucket)
  /\ ops["f2"].kind = "delete" /\ ops["f2"].pc = "remove"
  /\ ops["f1"].before # ops["f2"].before

\* two uploads are in flight at once
C27_TwoUploadsReached ==
  /\ ops["f1"].kind = "upload" /\ ops["f1"].pc = "put"
  /\ ops["f2"].kind = "upload" /\ ops["f2"].pc = "put"

(***************************************************************************)
(* Properties of the bucket-existence cache                                *)
(***************************************************************************)

\* the cached entry e is younger than 5 minutes at the time `at`
YoungerThanFiveMinutes(e, at) == e.set /\ at - e.timestamp < 5 * 60 * 1000

\* C28: the cache holds the result of the last successful probe with its
\* completion time: a probe that succeeds overwrites the cache with its result,
\* a probe that fails leaves the cache unchanged, and nothing else changes the
\* cache; a check made with caching enabled while the cached entry is younger
\* than 5 minutes makes no bucketExists call; and the check never throws
C28_CacheHoldsLastSuccessfulProbe ==
  /\ [](probe.last.event = "resolved" =>
          probe.cache = [set |-> TRUE, exists |-> probe.last.exists,
                         timestamp |-> probe.last.at])
  /\ [](probe.last.event = "rejected" => probe.cache = probe.last.cacheBefore)
  /\ [][probe'.cache # probe.cache => probe'.last.event = "resolved"]_vars
  /\ [](/\ probe.last.event \in {"cached", "called"} /\ probe.last.useCache
        /\ YoungerThanFiveMinutes(probe.last.cacheBefore, probe.last.at)
        => probe.last.event = "cached")
  /\ [][probe'.last.event = "cached" =>
          /\ probe'.bucketExistsCalls = probe.bucketExistsCalls
          /\ probe'.pending = probe.pending /\ probe'.cache = probe.cache]_vars
  /\ [](probe.last.event \in {"cached", "resolved", "rejected"} =>
          probe.last.promise = "resolved")

\* a check with caching enabled has returned the entry cached four minutes
\* before, without a bucketExists call
C28_Witness ==
  /\ probe.last.event = "cached" /\ probe.last.useCache
  /\ probe.last.cacheBefore.set
  /\ probe.last.at - probe.last.cacheBefore.timestamp = 4 * MinuteMs
  /\ probe.bucketExistsCalls = 1

\* a check with caching enabled has called bucketExists on an entry of five minutes
C28_ExpiredReached ==
  /\ probe.last.event = "called" /\ probe.last.useCache
  /\ probe.last.cacheBefore.set
  /\ probe.last.at - probe.last.cacheBefore.timestamp = 5 * MinuteMs

\* a failed probe has left the entry of an earlier probe in the cache
C28_FailureKeptReached ==
  probe.last.event = "rejected" /\ probe.cache.set /\ probe.cache.timestamp < probe.last.at

(***************************************************************************)
(* Properties of ensureStreamClosed                                        *)
(***************************************************************************)

\* ensureStreamClosed waited for the stream of the upload on f
Waited(f) == ops[f].kind = "upload" /\ ops[f].closer.event # "none"

\* what holds of ensureStreamClosed in every state: for a buffer or a stream
\* that had ended or been destroyed it returned at once, without listener or
\* timer; for a live stream it arms a timer of 30 seconds; resolve() is called
\* at most once, and once when upload goes on; by then the listeners are
\* removed and the timer is cleared; the timeout destroys the stream; and
\* upload resolves after a PUT that succeeded
CloserCompletesOnce(f) ==
  /\ ops[f].kind = "upload" /\ ops[f].pc = "closing" =>
       /\ ops[f].content = Strm
       /\ ops[f].closer.timeoutMs = 30000
       /\ ops[f].closer.resolves = 0
       /\ ops[f].closer.timer \/ ops[f].closer.delay
  /\ Done(f, "upload") /\ Issued(f, "putObject") /\ ops[f].clientError = Undefined =>
       /\ ops[f].result = Resolved(Undefined)
       /\ ops[f].closer.resolves = (IF Waited(f) THEN 1 ELSE 0)
       /\ ~Waited(f) => ops[f].closer = NoCloser
  /\ Waited(f) =>
       /\ ops[f].closer.resolved /\ ~ops[f].closer.listening /\ ~ops[f].closer.timer
       /\ ops[f].closer.resolves <= 1
       /\ ops[f].closer.event = "timeout" => ops[f].stream.destroyed

\* C29: ensureStreamClosed always completes and never rejects: it returns at
\* once for a buffer or an ended or destroyed stream, and for a live stream it
\* resolves once, on the first 'end', 'close' or 'error' event or on its
\* 30-second timeout, which destroys the stream, with the listeners removed
\* and the timer cleared; hence every PUT that succeeded is eventually
\* followed by upload settling
C29_StreamCloserAlwaysCompletes ==
  /\ [](\A f \in FileNames : CloserCompletesOnce(f))
  /\ \A f \in FileNames :
       (ops[f].kind = "upload" /\ ops[f].pc = "closing") ~> Done(f, "upload")

\* upload has settled after the timeout of ensureStreamClosed destroyed a
\* stream that emitted no event
C29_Witness ==
  \E f \in DOMAIN files :
    /\ Done(f, "upload") /\ ops[f].result = Resolved(Undefined)
    /\ ops[f].closer.event = "timeout" /\ ops[f].closer.resolves = 1
    /\ ops[f].stream = [readableEnded |-> FALSE, destroyed |-> TRUE]

\* on Windows, upload has settled after the 'end' event and the delay
C29_DelayReached ==
  \E f \in DOMAIN files :
    /\ Done(f, "upload") /\ env.platform = "win32"
    /\ ops[f].closer.event = "end" /\ ops[f].closer.resolves = 1 /\ ~ops[f].closer.delay

(***************************************************************************)
(* Properties of delete and getSignedUrl after upload                      *)
(***************************************************************************)

\* the object name that the upload on f passed to putObject
UploadedObjectName(f) ==
  LET i == CHOOSE i \in 1..Len(ops[f].calls) : ops[f].calls[i].op = "putObject"
  IN  ops[f].calls[i].key

\* the upload on f succeeded and wrote file.url
Uploaded(f) ==
  /\ Done(f, "upload") /\ Issued(f, "putObject")
  /\ ops[f].result = Resolved(Undefined)
  /\ files[f].url = createFileUrl(UploadedObjectName(f), hostUrl, config.bucket)

\* delete or getSignedUrl starts on the descriptor that upload left
AddressedNext(f) ==
  Uploaded(f) /\ ops'[f].kind \in {"delete", "getSignedUrl"} /\ ops'[f].before = files[f]

\* the call that starts asks the client for the object that upload stored:
\* delete removes it, and getSignedUrl signs it when it signs anything
SameObjectAddressed(f) ==
  /\ \A i \in 1..Len(ops'[f].calls) :
       /\ ops'[f].calls[i].bucket = config.bucket
       /\ ops'[f].calls[i].key = UploadedObjectName(f)
  /\ ops'[f].kind = "delete" =>
       ops'[f].pc = "remove" /\ ops'[f].calls[1].op = "removeObject"
  /\ ops'[f].kind = "getSignedUrl" /\ ops'[f].pc = "presign" =>
       ops'[f].calls[1].op = "presignedGetObject"

\* C30: after a successful upload(file), a later delete(file) or
\* getSignedUrl(file) on the same descriptor addresses exactly the object
\* name that upload passed to putObject, in the configured bucket
C30_DeleteAndSignAddressUploadedObject ==
  [][AddressedNext("f1") => SameObjectAddressed("f1")]_vars

\* the same for the object names that the URL parser leaves as they are
C30_PlainNamesAreAddressed ==
  [][AddressedNext("f1") /\ PlainKey(UploadedObjectName("f1")) => SameObjectAddressed("f1")]_vars

\* delete asks for the removal of an object after the upload of the descriptor
C30_DeleteAfterUploadReached ==
  /\ ops["f1"].kind = "delete" /\ ops["f1"].pc = "remove"
  /\ ops["f1"].before.url = createFileUrl(normalizeUploadPath(
         buildUploadPath(ops["f1"].before, config.folder).val), hostUrl, config.bucket)

\* the same with a key that has a space
C30_SpaceReached ==
  /\ C30_DeleteAfterUploadReached
  /\ ~PlainKey(normalizeUploadPath(buildUploadPath(ops["f1"].before, config.folder).val))

====
